---- MODULE Spec2Model ----
(***************************************************************************)
(* TrendMaster extension: the service worker (orchestrator) that polls the *)
(* server on an alarm, validates a task, hands it to the content script of *)
(* the platform tab and reports the outcome.                               *)
(*                                                                         *)
(* Every asynchronous handler (alarm tick, popup message, TASK_RESULT) is  *)
(* a process whose program counter names the await it is suspended at.     *)
(* One step of a process is the code between two awaits; chrome.storage    *)
(* get and set are the atomic operations on the persisted record.          *)
(***************************************************************************)
EXTENDS Integers, Sequences, FiniteSets, TLC

(***************************************************************************)
(* Bounds of the model.                                                    *)
(***************************************************************************)
\* handler invocations (alarm firings, messages, lifecycle events) in one
\* behaviour; any two of them may overlap
MaxHandlers == 2

(***************************************************************************)
(* JavaScript values of the task payload.  A string is a tuple of          *)
(* one-character strings; t tells the type the value has at run time.      *)
(***************************************************************************)
Str(s) == [t |-> "str", v |-> s]
Undef == [t |-> "undef", v |-> <<>>]
Null == [t |-> "null", v |-> <<>>]
Num(digits) == [t |-> "num", v |-> digits]

UpperCase == <<"A","B","C","D","E","F","G","H","I","J","K","L","M",
               "N","O","P","Q","R","S","T","U","V","W","X","Y","Z">>
LowerCase == <<"a","b","c","d","e","f","g","h","i","j","k","l","m",
               "n","o","p","q","r","s","t","u","v","w","x","y","z">>
Digits == {"0","1","2","3","4","5","6","7","8","9"}

\* the lower-case letter of each upper-case letter
LowerTable ==
  [c \in {UpperCase[i] : i \in 1..26} |->
     LowerCase[CHOOSE i \in 1..26 : UpperCase[i] = c]]

\* String.prototype.toLowerCase, one character
LowerChar(c) == IF c \in DOMAIN LowerTable THEN LowerTable[c] ELSE c

\* String.prototype.toLowerCase
toLowerCase(s) == [i \in 1..Len(s) |-> LowerChar(s[i])]

\* \w of a JavaScript regular expression
WordChars ==
  {UpperCase[i] : i \in 1..26} \cup {LowerCase[i] : i \in 1..26} \cup Digits \cup {"_"}
IsWordChar(c) == c \in WordChars

\* \s of a JavaScript regular expression (the characters the model uses)
IsSpaceChar(c) == c \in {" ", "\t", "\n"}

\* pat occurs in s at position i, letters compared case-insensitively
MatchAtCI(s, pat, i) ==
  /\ i + Len(pat) - 1 <= Len(s)
  /\ \A k \in 1..Len(pat) : LowerChar(s[i + k - 1]) = pat[k]

\* /pat/i . test(s) for a literal pattern
ContainsCI(s, pat) == \E i \in 1..Len(s) : MatchAtCI(s, pat, i)

\* /on\w+\s*=/i . test(s)
MatchesOnHandler(s) ==
  \E i \in 1..Len(s) :
    /\ MatchAtCI(s, <<"o","n">>, i)
    /\ \E j \in (i + 2)..Len(s) :
         /\ \A k \in (i + 2)..j : IsWordChar(s[k])
         /\ \E e \in (j + 1)..Len(s) :
              /\ \A k \in (j + 1)..(e - 1) : IsSpaceChar(s[k])
              /\ s[e] = "="

\* const dangerous = /<script|javascript:|on\w+\s*=/i
dangerous(s) ==
  \/ ContainsCI(s, <<"<","s","c","r","i","p","t">>)
  \/ ContainsCI(s, <<"j","a","v","a","s","c","r","i","p","t",":">>)
  \/ MatchesOnHandler(s)

\* template literal `${value}`
StringOf(x) ==
  IF x.t = "undef" THEN <<"u","n","d","e","f","i","n","e","d">>
  ELSE IF x.t = "null" THEN <<"n","u","l","l">> ELSE x.v

ALLOWED_TYPES ==
  { <<"p","o","s","t">>, <<"l","i","k","e">>, <<"c","o","m","m","e","n","t">>,
    <<"s","h","a","r","e">>, <<"s","t","o","r","y">> }
ALLOWED_PLATFORMS ==
  { <<"f","a","c","e","b","o","o","k">>,
    <<"i","n","s","t","a","g","r","a","m">>,
    <<"t","w","i","t","t","e","r">> }
MAX_CONTENT_LENGTH == 5000

\* an error or reason message: a fixed text followed by an interpolated value
Msg(text, arg) == [text |-> text, arg |-> arg]
Err(text) == Msg(text, <<>>)
NoErr == Msg("", <<>>)
\* error.message of an exception thrown by a chrome.* call
ChromeError == Err("chrome error")

\* x?.toLowerCase() : undefined for undefined, a TypeError for a non-string
LowerThrows(x) == x.t = "num"
LowerOf(x) == IF x.t = "str" THEN Str(toLowerCase(x.v)) ELSE Undef

\* task && typeof task === 'object' : the payload is a record with fields
IsObject(task) == "id" \in DOMAIN task

\* validateTask raises a TypeError (platform or task_type is not a string)
validateTaskThrows(task) ==
  /\ IsObject(task)
  /\ task.id.t = "str" /\ task.id.v # <<>>
  /\ \/ LowerThrows(task.platform)
     \/ /\ LowerOf(task.platform).t = "str"
        /\ LowerOf(task.platform).v \in ALLOWED_PLATFORMS
        /\ LowerThrows(task.task_type)

\* validateTask(task), for a task on which it does not throw
validateTask(task) ==
  IF ~IsObject(task)
  THEN [valid |-> FALSE, reason |-> Err("Invalid task object")]
  ELSE IF ~(task.id.t = "str" /\ task.id.v # <<>>)
  THEN [valid |-> FALSE, reason |-> Err("Missing task ID")]
  ELSE IF ~(LowerOf(task.platform).t = "str"
            /\ LowerOf(task.platform).v \in ALLOWED_PLATFORMS)
  THEN [valid |-> FALSE,
        reason |-> Msg("Invalid platform: ", StringOf(task.platform))]
  ELSE IF ~(LowerOf(task.task_type).t = "str"
            /\ LowerOf(task.task_type).v \in ALLOWED_TYPES)
  THEN [valid |-> FALSE,
        reason |-> Msg("Invalid task type: ", StringOf(task.task_type))]
  ELSE IF task.text # <<>> /\ Len(task.text) > MAX_CONTENT_LENGTH
  THEN [valid |-> FALSE, reason |-> Err("Content too long")]
  ELSE IF task.text # <<>> /\ dangerous(task.text)
  THEN [valid |-> FALSE, reason |-> Err("Suspicious content detected")]
  ELSE [valid |-> TRUE, reason |-> NoErr]

(***************************************************************************)
(* The persisted record (chrome.storage.local, key 'state').               *)
(***************************************************************************)
NullMsg == Msg("null", <<>>)
NoTask == [id |-> Undef, status |-> "null"]

DEFAULT_STATE ==
  [ isRunning |-> FALSE,
    apiKey |-> "",
    agentId |-> 0,
    lastPoll |-> 0,
    lastTask |-> NoTask,
    stats |-> [tasksCompleted |-> 0, tasksFailed |-> 0, lastError |-> NullMsg] ]

TickIds == 1..MaxHandlers
\* process 0 runs the handlers of chrome.runtime messages and lifecycle events
MsgProc == 0
ProcIds == {MsgProc} \cup TickIds

Platforms == {"facebook", "instagram", "twitter"}
\* PLATFORM_URLS[platform]: the platform whose base URL a lower-case name has
PlatformName(v) ==
  IF v = <<"f","a","c","e","b","o","o","k">> THEN "facebook"
  ELSE IF v = <<"i","n","s","t","a","g","r","a","m">> THEN "instagram"
  ELSE "twitter"

DigitOf == <<"1","2","3","4","5","6","7","8","9">>
\* the id the server gives the task handed out to tick p
TaskIdOf(p) == Str(<<"t", DigitOf[p]>>)

ValidText == <<"h","i">>
\* media is the length of content.media_urls (0 when there is none)
MkTask(id, platform, type, text) ==
  [id |-> id, platform |-> platform, task_type |-> type, text |-> text,
   media |-> 0]
NoTaskPayload == MkTask(Undef, Undef, Undef, <<>>)

\* the payloads the server may answer get-task with for tick p
ServerTasks(p) ==
  { MkTask(TaskIdOf(p), Str(<<"f","a","c","e","b","o","o","k">>),
           Str(<<"p","o","s","t">>), ValidText),
    MkTask(TaskIdOf(p), Str(<<"T","w","i","t","t","e","r">>),
           Str(<<"L","i","k","e">>), <<>>),
    MkTask(TaskIdOf(p), Str(<<"t","i","k","t","o","k">>),
           Str(<<"p","o","s","t">>), ValidText),
    MkTask(TaskIdOf(p), Str(<<"f","a","c","e","b","o","o","k">>),
           Str(<<"d","a","n","c","e">>), ValidText),
    MkTask(TaskIdOf(p), Num(<<"5">>), Str(<<"p","o","s","t">>), ValidText),
    MkTask(TaskIdOf(p), Str(<<"i","n","s","t","a","g","r","a","m">>),
           Str(<<"p","o","s","t">>), ValidText),
    MkTask(TaskIdOf(p), Str(<<"i","n","s","t","a","g","r","a","m">>),
           Str(<<"S","t","o","r","y">>), ValidText) }

VARIABLES
  store,      \* the persisted state record
  alarm,      \* the poll alarm is armed
  procs,      \* the handler invocations: position and local variables
  tabs,       \* platforms that have an open tab under their base URL
  disp,       \* per task: the content script's handleTask
  log,        \* per tick: what it requested and sent
  intended,   \* the record if every setState changed only its own keys
  msgCount,   \* messages handled so far
  stopDone,   \* STOP_AGENT completed and no START_AGENT was received since
  val,        \* a call of validateTask: its argument and its outcome
  fe,         \* a call of findElement: the query, the clock and the page
  ht,         \* a call of humanType: the element, the text and the position
  lk,         \* a call of performLike: the platform, the page and the target
  dp,         \* a call of a dispatcher's handleTask: the task and the routine
  hc,         \* a call of humanClick: the element and the events dispatched
  sn          \* a call of sanitizeText: the text, each replace and the result

\* the service worker
swVars == <<store, alarm, procs, tabs, disp, log, intended, msgCount, stopDone>>
\* functions called on their own, and the content scripts
csVars == <<val, fe, ht, lk, dp, hc, sn>>
vars == <<swVars, csVars>>

\* no call of the function is made
NotCalled == [pc |-> "off"]
CsIdle ==
  /\ val = NotCalled
  /\ fe = NotCalled
  /\ ht = NotCalled
  /\ lk = NotCalled
  /\ dp = NotCalled
  /\ hc = NotCalled
  /\ sn = NotCalled

IdleProc ==
  [ kind |-> "none", pc |-> "idle", cur |-> DEFAULT_STATE,
    st |-> DEFAULT_STATE.stats, aid |-> 0, task |-> NoTaskPayload,
    tid |-> 0, status |-> "", err |-> NoErr, ret |-> "", key |-> "" ]

EmptyLog ==
  [ regReqs |-> 0, regFailed |-> FALSE, regErr |-> NoErr,
    getTaskReqs |-> <<>>, headers |-> <<>>, tabOps |-> 0,
    queried |-> "none", created |-> 0, sent |-> 0, reply |-> "none",
    stopped |-> FALSE,
    reports |-> <<>>, acks |-> 0, counted |-> 0,
    ackedCompleted |-> 0, ackedFailed |-> 0, trace |-> <<>> ]

\* a configured agent that is polling (after SET_API_KEY and START_AGENT)
RunningState(aid) ==
  [DEFAULT_STATE EXCEPT !.isRunning = TRUE, !.apiKey = "k", !.agentId = aid]

Init ==
  /\ store \in {DEFAULT_STATE, RunningState(0), RunningState(MaxHandlers + 1)}
  /\ alarm = store.isRunning
  /\ procs = [p \in ProcIds |-> IdleProc]
  /\ tabs \in {{}, {"facebook"}}
  /\ disp = [p \in TickIds |-> "none"]
  /\ log = [p \in TickIds |-> EmptyLog]
  /\ intended = store
  /\ msgCount = 0
  /\ stopDone = FALSE
  /\ CsIdle

(***************************************************************************)
(* Helpers of the actions.                                                 *)
(***************************************************************************)
At(p, kind, pc) == procs[p].kind = kind /\ procs[p].pc = pc
IsTick(p) == p \in TickIds /\ procs[p].kind = "tick"

\* the process continues at pc with the given local variables changed
Goto(p, pc) == [procs[p] EXCEPT !.pc = pc]

\* the handler of a message has returned: its slot is free again
Return(p, rec) == IF rec.pc = "free" THEN IdleProc ELSE rec

Logged(p, ev) == [log[p] EXCEPT !.trace = Append(@, ev)]

\* reportTaskStatus(taskId, status, errorMessage) is called; then continue at ret
CallReport(p, status, err, ret) ==
  [procs[p] EXCEPT !.pc = "rp_read", !.status = status, !.err = err, !.ret = ret]

\* an invocation of the alarm listener that is in its fetchTask, executeTask,
\* reportTaskStatus sequence (past the running test and the jitter sleep)
Busy(q) ==
  IsTick(q) /\ procs[q].pc \notin {"al_read", "al_stop", "ft_read", "done", "crashed"}

\* the awaits that can outlast an alarm period (the alarm fires 6 s after
\* START_AGENT and every 30 s, the jitter sleep is below 5 s and a storage
\* access takes milliseconds): a server response, the load of a new tab,
\* the reply of the content script
SlowWait(q) ==
  IsTick(q) /\ procs[q].pc \in {"reg_fetch", "gt_fetch", "wait_load", "await_reply", "rp_fetch"}

\* handler invocations started so far
Started == msgCount + Cardinality({q \in TickIds : procs[q].kind # "none"})

(***************************************************************************)
(* chrome.alarms.onAlarm listener.                                         *)
(***************************************************************************)
\* the alarm fires: a new invocation of the listener starts
AlarmFire(p) ==
  /\ alarm
  /\ Started < MaxHandlers
  /\ p \in TickIds /\ procs[p].kind = "none"
  /\ \A q \in TickIds : q < p => procs[q].kind # "none"
  /\ \A q \in TickIds : IsTick(q) => SlowWait(q) \/ procs[q].pc \in {"done", "crashed"}
  /\ procs' = [procs EXCEPT ![p] = [IdleProc EXCEPT !.kind = "tick", !.pc = "al_read", !.tid = p]]
  /\ UNCHANGED <<csVars, store, alarm, tabs, disp, log, intended, msgCount, stopDone>>

\* const state = await getState(); if (!state.isRunning) ... else the jitter
\* sleep starts, after which fetchTask is called
TickRead(p) ==
  /\ At(p, "tick", "al_read")
  /\ procs' = [procs EXCEPT ![p] = Goto(p, IF store.isRunning THEN "ft_read" ELSE "al_stop")]
  /\ UNCHANGED <<csVars, store, alarm, tabs, disp, log, intended, msgCount, stopDone>>

\* await stopPolling(); return
TickStopPolling(p) ==
  /\ At(p, "tick", "al_stop")
  /\ alarm' = FALSE
  /\ procs' = [procs EXCEPT ![p] = Goto(p, "done")]
  /\ UNCHANGED <<csVars, store, tabs, disp, log, intended, msgCount, stopDone>>

(***************************************************************************)
(* fetchTask and registerAgent.                                            *)
(***************************************************************************)
\* const state = await getState(); the running / apiKey / agentId tests
FetchRead(p) ==
  /\ At(p, "tick", "ft_read")
  /\ procs' = [procs EXCEPT ![p] =
       Goto(p, IF ~store.isRunning \/ store.apiKey = "" THEN "done"
               ELSE IF store.agentId = 0 THEN "reg_read"
               ELSE "ft_read2")]
  /\ UNCHANGED <<csVars, store, alarm, tabs, disp, log, intended, msgCount, stopDone>>

\* registerAgent: const state = await getState(); throws without an API key
RegRead(p) ==
  /\ At(p, "tick", "reg_read")
  /\ IF store.apiKey = ""
     THEN /\ procs' = [procs EXCEPT ![p] = Goto(p, "done")]
          /\ log' = [log EXCEPT ![p].regFailed = TRUE,
                                ![p].regErr = Err("Nincs API kulcs beallitva")]
     ELSE /\ procs' = [procs EXCEPT ![p] = Goto(p, "reg_api")]
          /\ UNCHANGED log
  /\ UNCHANGED <<csVars, store, alarm, tabs, disp, intended, msgCount, stopDone>>

\* the headers of a request of apiCall: X-Client-Version always, X-API-Key
\* when the state that apiCall read has a key
Headers(apiKey) == [version |-> "CONFIG.VERSION", apiKey |-> apiKey]

\* apiCall('/api/agent/register'): const state = await getState(); without
\* an API key it throws, else getSettings is awaited
RegApi(p) ==
  /\ At(p, "tick", "reg_api")
  /\ IF store.apiKey = ""
     THEN /\ procs' = [procs EXCEPT ![p] = Goto(p, "done")]
          /\ log' = [log EXCEPT ![p].regFailed = TRUE,
                                ![p].regErr = Err("Nincs API kulcs beallitva")]
     ELSE /\ procs' = [procs EXCEPT ![p] = [Goto(p, "reg_send") EXCEPT !.key = store.apiKey]]
          /\ UNCHANGED log
  /\ UNCHANGED <<csVars, store, alarm, tabs, disp, intended, msgCount, stopDone>>

\* apiCall: fetch(serverUrl + '/api/agent/register', {headers, body})
RegSend(p) ==
  /\ At(p, "tick", "reg_send")
  /\ procs' = [procs EXCEPT ![p] = [Goto(p, "reg_fetch") EXCEPT !.key = ""]]
  /\ log' = [log EXCEPT ![p].regReqs = @ + 1,
                        ![p].headers = Append(@, Headers(procs[p].key))]
  /\ UNCHANGED <<csVars, store, alarm, tabs, disp, intended, msgCount, stopDone>>

\* the register-agent response: an agent id, or a failure that registerAgent
\* rethrows and fetchTask catches (return null)
RegResponse(p) ==
  /\ At(p, "tick", "reg_fetch")
  /\ \E ok \in BOOLEAN :
       IF ok
       THEN /\ procs' = [procs EXCEPT ![p] = Goto(p, "reg_set_read")]
            /\ UNCHANGED log
       ELSE /\ procs' = [procs EXCEPT ![p] = Goto(p, "done")]
            /\ log' = [log EXCEPT ![p].regFailed = TRUE,
                                  ![p].regErr = Err("API hiba")]
  /\ UNCHANGED <<csVars, store, alarm, tabs, disp, intended, msgCount, stopDone>>

\* setState({agentId}): const current = await getState()
RegSetRead(p) ==
  /\ At(p, "tick", "reg_set_read")
  /\ procs' = [procs EXCEPT ![p] = [Goto(p, "reg_set_write") EXCEPT !.cur = store]]
  /\ UNCHANGED <<csVars, store, alarm, tabs, disp, log, intended, msgCount, stopDone>>

\* setState({agentId}): chrome.storage.local.set({state: {...current, agentId}})
RegSetWrite(p) ==
  /\ At(p, "tick", "reg_set_write")
  /\ store' = [procs[p].cur EXCEPT !.agentId = p]
  /\ intended' = [intended EXCEPT !.agentId = p]
  /\ procs' = [procs EXCEPT ![p] = [Goto(p, "ft_read2") EXCEPT !.cur = DEFAULT_STATE]]
  /\ UNCHANGED <<csVars, alarm, tabs, disp, log, msgCount, stopDone>>

\* const currentState = await getState()
FetchRead2(p) ==
  /\ At(p, "tick", "ft_read2")
  /\ procs' = [procs EXCEPT ![p] = [Goto(p, "gt_api") EXCEPT !.aid = store.agentId]]
  /\ UNCHANGED <<csVars, store, alarm, tabs, disp, log, intended, msgCount, stopDone>>

\* apiCall('/api/agent/get-task'): const state = await getState(); without
\* an API key it throws, else getSettings is awaited
GetTaskApi(p) ==
  /\ At(p, "tick", "gt_api")
  /\ procs' = [procs EXCEPT ![p] =
       IF store.apiKey = ""
       THEN [Goto(p, "fe_read") EXCEPT !.err = Err("Nincs API kulcs beallitva")]
       ELSE [Goto(p, "gt_send") EXCEPT !.key = store.apiKey]]
  /\ UNCHANGED <<csVars, store, alarm, tabs, disp, log, intended, msgCount, stopDone>>

\* apiCall: fetch(serverUrl + '/api/agent/get-task', {headers, body})
GetTaskSend(p) ==
  /\ At(p, "tick", "gt_send")
  /\ procs' = [procs EXCEPT ![p] = [Goto(p, "gt_fetch") EXCEPT !.key = ""]]
  /\ log' = [log EXCEPT ![p].getTaskReqs = Append(@, procs[p].aid),
                        ![p].headers = Append(@, Headers(procs[p].key))]
  /\ UNCHANGED <<csVars, store, alarm, tabs, disp, intended, msgCount, stopDone>>

\* the get-task response: a failure, no task, or one task
GetTaskResponse(p) ==
  /\ At(p, "tick", "gt_fetch")
  /\ \/ /\ procs' = [procs EXCEPT ![p] = [Goto(p, "fe_read") EXCEPT !.err = Err("API hiba")]]
        /\ UNCHANGED log
     \/ /\ procs' = [procs EXCEPT ![p] = Goto(p, "lp_read")]
        /\ UNCHANGED log
     \/ \E task \in ServerTasks(p) :
          /\ procs' = [procs EXCEPT ![p] = [Goto(p, "lp_read") EXCEPT !.task = task]]
          /\ log' = [log EXCEPT ![p] = Logged(p, "response")]
  /\ UNCHANGED <<csVars, store, alarm, tabs, disp, intended, msgCount, stopDone>>

\* setState({lastPoll: Date.now()}): const current = await getState()
LastPollRead(p) ==
  /\ At(p, "tick", "lp_read")
  /\ procs' = [procs EXCEPT ![p] = [Goto(p, "lp_write") EXCEPT !.cur = store]]
  /\ UNCHANGED <<csVars, store, alarm, tabs, disp, log, intended, msgCount, stopDone>>

\* setState({lastPoll}): the write; then fetchTask returns the task or null
LastPollWrite(p) ==
  /\ At(p, "tick", "lp_write")
  /\ store' = [procs[p].cur EXCEPT !.lastPoll = p]
  /\ intended' = [intended EXCEPT !.lastPoll = p]
  /\ procs' = [procs EXCEPT ![p] =
       [Goto(p, IF procs[p].task = NoTaskPayload THEN "done" ELSE "validate")
          EXCEPT !.cur = DEFAULT_STATE]]
  /\ UNCHANGED <<csVars, alarm, tabs, disp, log, msgCount, stopDone>>

\* catch of fetchTask: (await getState()).stats
FetchErrRead(p) ==
  /\ At(p, "tick", "fe_read")
  /\ procs' = [procs EXCEPT ![p] = [Goto(p, "fe_set_read") EXCEPT !.st = store.stats]]
  /\ UNCHANGED <<csVars, store, alarm, tabs, disp, log, intended, msgCount, stopDone>>

\* catch of fetchTask: setState({stats}) reads the record
FetchErrSetRead(p) ==
  /\ At(p, "tick", "fe_set_read")
  /\ procs' = [procs EXCEPT ![p] = [Goto(p, "fe_set_write") EXCEPT !.cur = store]]
  /\ UNCHANGED <<csVars, store, alarm, tabs, disp, log, intended, msgCount, stopDone>>

\* a faulty catch of fetchTask: the polling error also stops the polling
FetchErrSetWriteStopsPolling(p) ==
  /\ At(p, "tick", "fe_set_write")
  /\ store' = [procs[p].cur EXCEPT !.stats = [procs[p].st EXCEPT !.lastError = procs[p].err]]
  /\ intended' = [intended EXCEPT !.stats.lastError = procs[p].err]
  /\ alarm' = FALSE
  /\ procs' = [procs EXCEPT ![p] =
       [Goto(p, "done") EXCEPT !.cur = DEFAULT_STATE, !.st = DEFAULT_STATE.stats,
                                !.err = NoErr]]
  /\ UNCHANGED <<csVars, tabs, disp, log, msgCount, stopDone>>

\* catch of fetchTask: setState({stats: {...stats, lastError}}) writes it
FetchErrSetWrite(p) ==
  /\ At(p, "tick", "fe_set_write")
  /\ store' = [procs[p].cur EXCEPT !.stats = [procs[p].st EXCEPT !.lastError = procs[p].err]]
  /\ intended' = [intended EXCEPT !.stats.lastError = procs[p].err]
  /\ procs' = [procs EXCEPT ![p] =
       [Goto(p, "done") EXCEPT !.cur = DEFAULT_STATE, !.st = DEFAULT_STATE.stats,
                                !.err = NoErr]]
  /\ UNCHANGED <<csVars, alarm, tabs, disp, log, msgCount, stopDone>>

(***************************************************************************)
(* executeTask.                                                            *)
(***************************************************************************)
\* a faulty executeTask: the tab lookup comes before the test of the validation
\* result, so a rejected task still causes a tab query
ValidateAfterTabQuery(p) ==
  /\ At(p, "tick", "validate")
  /\ log' = [log EXCEPT ![p] = [Logged(p, "validate") EXCEPT !.tabOps = @ + 1]]
  /\ procs' = [procs EXCEPT ![p] =
       IF validateTaskThrows(procs[p].task) THEN Goto(p, "crashed")
       ELSE IF ~validateTask(procs[p].task).valid
            THEN CallReport(p, "rejected", validateTask(procs[p].task).reason, "done")
            ELSE Goto(p, "tabs_query")]
  /\ UNCHANGED <<csVars, store, alarm, tabs, disp, intended, msgCount, stopDone>>

\* const validation = validateTask(task): a TypeError leaves the listener
\* (nothing catches it); an invalid task is reported as rejected
Validate(p) ==
  /\ At(p, "tick", "validate")
  /\ log' = [log EXCEPT ![p] = Logged(p, "validate")]
  /\ procs' = [procs EXCEPT ![p] =
       IF validateTaskThrows(procs[p].task) THEN Goto(p, "crashed")
       ELSE IF ~validateTask(procs[p].task).valid
            THEN CallReport(p, "rejected", validateTask(procs[p].task).reason, "done")
            ELSE Goto(p, "tabs_query")]
  /\ UNCHANGED <<csVars, store, alarm, tabs, disp, intended, msgCount, stopDone>>

\* the platform of a validated task: task.platform.toLowerCase()
TaskPlatform(task) == PlatformName(toLowerCase(task.platform.v))

\* what chrome.tabs.query({url: baseUrl/*}) finds for the task's platform
Queried(task) == IF TaskPlatform(task) \in tabs THEN "open" ELSE "absent"

\* a faulty executeTask: a tab is created without looking at the open ones
TabsQueryAlwaysCreates(p) ==
  /\ At(p, "tick", "tabs_query")
  /\ log' = [log EXCEPT ![p].tabOps = @ + 1, ![p].queried = Queried(procs[p].task)]
  /\ procs' = [procs EXCEPT ![p] = Goto(p, "tab_create")]
  /\ UNCHANGED <<csVars, store, alarm, tabs, disp, intended, msgCount, stopDone>>

\* const tabs = await chrome.tabs.query({url: baseUrl/*})
TabsQuery(p) ==
  /\ At(p, "tick", "tabs_query")
  /\ log' = [log EXCEPT ![p].tabOps = @ + 1, ![p].queried = Queried(procs[p].task)]
  /\ procs' = [procs EXCEPT ![p] =
       Goto(p, IF Queried(procs[p].task) = "open" THEN "tab_update" ELSE "tab_create")]
  /\ UNCHANGED <<csVars, store, alarm, tabs, disp, intended, msgCount, stopDone>>

\* await chrome.tabs.update(targetTab.id, {active: true}); it rejects when the
\* tab is gone
TabUpdate(p) ==
  /\ At(p, "tick", "tab_update")
  /\ log' = [log EXCEPT ![p].tabOps = @ + 1]
  /\ \E ok \in BOOLEAN :
       procs' = [procs EXCEPT ![p] =
         IF ok THEN Goto(p, "send")
         ELSE CallReport(p, "failed", ChromeError, "done")]
  /\ UNCHANGED <<csVars, store, alarm, tabs, disp, intended, msgCount, stopDone>>

\* targetTab = await chrome.tabs.create({url: baseUrl, active: false})
TabCreate(p) ==
  /\ At(p, "tick", "tab_create")
  /\ log' = [log EXCEPT ![p].tabOps = @ + 1, ![p].created = @ + 1]
  /\ tabs' = tabs \cup {TaskPlatform(procs[p].task)}
  /\ procs' = [procs EXCEPT ![p] = Goto(p, "wait_load")]
  /\ UNCHANGED <<csVars, store, alarm, disp, intended, msgCount, stopDone>>

\* the onUpdated listener sees status 'complete' for the new tab; the 2 s
\* render wait follows
TabLoaded(p) ==
  /\ At(p, "tick", "wait_load")
  /\ procs' = [procs EXCEPT ![p] = Goto(p, "send")]
  /\ UNCHANGED <<csVars, store, alarm, tabs, disp, log, intended, msgCount, stopDone>>

\* the onMessage listener of the content script of a platform takes the
\* message: message.task?.platform === '<platform>'
ListenerAccepts(task) ==
  /\ task.platform.t = "str"
  /\ task.platform.v \in ALLOWED_PLATFORMS
  /\ PlatformName(task.platform.v) = TaskPlatform(task)

\* a faulty executeTask: the message is sent without awaiting the reply and
\* the task is reported as completed while handleTask is still running
SendExecuteNoAwait(p) ==
  /\ At(p, "tick", "send")
  /\ \/ /\ procs' = [procs EXCEPT ![p] = CallReport(p, "failed", ChromeError, "done")]
        /\ log' = [log EXCEPT ![p] =
              [Logged(p, "send") EXCEPT !.sent = @ + 1, !.reply = "thrown"]]
        /\ UNCHANGED disp
     \/ /\ ~ListenerAccepts(procs[p].task)
        /\ procs' = [procs EXCEPT ![p] =
              CallReport(p, "failed", Err("Unknown error"), "done")]
        /\ log' = [log EXCEPT ![p] =
              [Logged(p, "send") EXCEPT !.sent = @ + 1, !.reply = "missing"]]
        /\ UNCHANGED disp
     \/ /\ ListenerAccepts(procs[p].task)
        /\ procs' = [procs EXCEPT ![p] = CallReport(p, "completed", NoErr, "notify")]
        /\ log' = [log EXCEPT ![p] =
              [Logged(p, "send") EXCEPT !.sent = @ + 1, !.reply = "success"]]
        /\ disp' = [disp EXCEPT ![p] = "running"]
  /\ UNCHANGED <<csVars, store, alarm, tabs, intended, msgCount, stopDone>>

\* chrome.tabs.sendMessage(targetTab.id, {type: 'EXECUTE_TASK', task}): no
\* receiving end (rejects), no listener answers (undefined), or handleTask runs
SendExecute(p) ==
  /\ At(p, "tick", "send")
  /\ \/ /\ procs' = [procs EXCEPT ![p] =
              CallReport(p, "failed", ChromeError, "done")]
        /\ log' = [log EXCEPT ![p] =
              [Logged(p, "send") EXCEPT !.sent = @ + 1, !.reply = "thrown"]]
        /\ UNCHANGED disp
     \/ /\ ~ListenerAccepts(procs[p].task)
        /\ procs' = [procs EXCEPT ![p] =
              CallReport(p, "failed", Err("Unknown error"), "done")]
        /\ log' = [log EXCEPT ![p] =
              [Logged(p, "send") EXCEPT !.sent = @ + 1, !.reply = "missing"]]
        /\ UNCHANGED disp
     \/ /\ ListenerAccepts(procs[p].task)
        /\ procs' = [procs EXCEPT ![p] = Goto(p, "await_reply")]
        /\ log' = [log EXCEPT ![p] = [Logged(p, "send") EXCEPT !.sent = @ + 1]]
        /\ disp' = [disp EXCEPT ![p] = "running"]
  /\ UNCHANGED <<csVars, store, alarm, tabs, intended, msgCount, stopDone>>

\* Instagram createPost / createStory: the task has no media
\* (!content.media_urls || content.media_urls.length === 0)
MediaRequired(task) ==
  /\ task.platform = Str(<<"i","n","s","t","a","g","r","a","m">>)
  /\ task.task_type.t = "str"
  /\ toLowerCase(task.task_type.v) \in { <<"p","o","s","t">>, <<"s","t","o","r","y">> }
  /\ task.media = 0

\* the error createPost / createStory throws and returns for it
MediaError(task) ==
  IF toLowerCase(task.task_type.v) = <<"p","o","s","t">>
  THEN Err("Instagram poszthoz kep szukseges")
  ELSE Err("Instagram story-hoz kep szukseges")

\* a dispatcher without the media test of createPost and createStory
DispatcherReplyNoMediaTest(p) ==
  /\ At(p, "tick", "await_reply")
  /\ \/ /\ disp' = [disp EXCEPT ![p] = "finished"]
        /\ log' = [log EXCEPT ![p] = [Logged(p, "outcome") EXCEPT !.reply = "success"]]
        /\ procs' = [procs EXCEPT ![p] = CallReport(p, "completed", NoErr, "notify")]
     \/ /\ disp' = [disp EXCEPT ![p] = "finished"]
        /\ log' = [log EXCEPT ![p] = [Logged(p, "outcome") EXCEPT !.reply = "failure"]]
        /\ procs' = [procs EXCEPT ![p] =
              CallReport(p, "failed", Err("dispatcher error"), "done")]
     \/ /\ disp' = [disp EXCEPT ![p] = "destroyed"]
        /\ log' = [log EXCEPT ![p] = [Logged(p, "outcome") EXCEPT !.reply = "thrown"]]
        /\ procs' = [procs EXCEPT ![p] =
              CallReport(p, "failed", ChromeError, "done")]
  /\ UNCHANGED <<csVars, store, alarm, tabs, intended, msgCount, stopDone>>

\* handleTask ends.  An Instagram post or story without media is refused by
\* the first statement of the action, before any element is looked up:
\* sendResponse({success: false, error}).  Any other task ends with
\* sendResponse({success: true}), or {success: false, error}, or the page is
\* unloaded and the message port closes.
DispatcherReply(p) ==
  /\ At(p, "tick", "await_reply")
  /\ \/ /\ MediaRequired(procs[p].task)
        /\ disp' = [disp EXCEPT ![p] = "refused"]
        /\ log' = [log EXCEPT ![p] = [Logged(p, "outcome") EXCEPT !.reply = "failure"]]
        /\ procs' = [procs EXCEPT ![p] =
              CallReport(p, "failed", MediaError(procs[p].task), "done")]
     \/ /\ ~MediaRequired(procs[p].task)
        /\ disp' = [disp EXCEPT ![p] = "finished"]
        /\ log' = [log EXCEPT ![p] = [Logged(p, "outcome") EXCEPT !.reply = "success"]]
        /\ procs' = [procs EXCEPT ![p] = CallReport(p, "completed", NoErr, "notify")]
     \/ /\ ~MediaRequired(procs[p].task)
        /\ disp' = [disp EXCEPT ![p] = "finished"]
        /\ log' = [log EXCEPT ![p] = [Logged(p, "outcome") EXCEPT !.reply = "failure"]]
        /\ procs' = [procs EXCEPT ![p] =
              CallReport(p, "failed", Err("dispatcher error"), "done")]
     \/ /\ ~MediaRequired(procs[p].task)
        /\ disp' = [disp EXCEPT ![p] = "destroyed"]
        /\ log' = [log EXCEPT ![p] = [Logged(p, "outcome") EXCEPT !.reply = "thrown"]]
        /\ procs' = [procs EXCEPT ![p] =
              CallReport(p, "failed", ChromeError, "done")]
  /\ UNCHANGED <<csVars, store, alarm, tabs, intended, msgCount, stopDone>>

\* showNotification('Task kesz', ...) inside the try block: when
\* chrome.notifications.create throws, the catch reports the task as failed
Notify(p) ==
  /\ At(p, "tick", "notify")
  /\ \E throws \in BOOLEAN :
       procs' = [procs EXCEPT ![p] =
         IF throws THEN CallReport(p, "failed", ChromeError, "done")
         ELSE Goto(p, "done")]
  /\ UNCHANGED <<csVars, store, alarm, tabs, disp, log, intended, msgCount, stopDone>>

(***************************************************************************)
(* reportTaskStatus, called by a tick or by the TASK_RESULT handler.       *)
(***************************************************************************)
\* const state = await getState()
ReportRead(p) ==
  /\ procs[p].pc = "rp_read"
  /\ procs' = [procs EXCEPT ![p] =
       [Goto(p, "rp_api") EXCEPT !.st = store.stats, !.aid = store.agentId]]
  /\ UNCHANGED <<csVars, store, alarm, tabs, disp, log, intended, msgCount, stopDone>>

ReportEntry(p, sent) ==
  [status |-> procs[p].status, err |-> procs[p].err, by |-> p, sent |-> sent]

\* the event a report request leaves in the trace of the task
ReportEvent(p) == IF p = MsgProc THEN <<>> ELSE <<"report">>

ClearReport(rec) ==
  [rec EXCEPT !.st = DEFAULT_STATE.stats, !.aid = 0, !.cur = DEFAULT_STATE,
              !.status = "", !.err = NoErr, !.ret = ""]

\* apiCall('/api/agent/task-status'): const state = await getState();
\* without an API key it throws before fetch (caught by reportTaskStatus),
\* else getSettings is awaited
ReportApi(p) ==
  /\ procs[p].pc = "rp_api"
  /\ IF store.apiKey = ""
     THEN /\ log' = [log EXCEPT ![procs[p].tid] =
                 [[log[procs[p].tid] EXCEPT !.trace = @ \o ReportEvent(p)] EXCEPT !.reports = Append(@, ReportEntry(p, FALSE))]]
          /\ procs' = [procs EXCEPT ![p] = Return(p, ClearReport(Goto(p, procs[p].ret)))]
     ELSE /\ procs' = [procs EXCEPT ![p] = [Goto(p, "rp_send") EXCEPT !.key = store.apiKey]]
          /\ UNCHANGED log
  /\ UNCHANGED <<csVars, store, alarm, tabs, disp, intended, msgCount, stopDone>>

\* apiCall: fetch(serverUrl + '/api/agent/task-status', {headers, body})
ReportSend(p) ==
  /\ procs[p].pc = "rp_send"
  /\ log' = [log EXCEPT ![procs[p].tid] =
        [[[log[procs[p].tid] EXCEPT !.trace = @ \o ReportEvent(p)]
            EXCEPT !.reports = Append(@, ReportEntry(p, TRUE))]
            EXCEPT !.headers = Append(@, Headers(procs[p].key))]]
  /\ procs' = [procs EXCEPT ![p] = [Goto(p, "rp_fetch") EXCEPT !.key = ""]]
  /\ UNCHANGED <<csVars, store, alarm, tabs, disp, intended, msgCount, stopDone>>

\* the log of the task after the server acknowledged the report of p: the
\* acknowledged reports of the task by status, and those of the tick itself
Acknowledged(p) ==
  [log[procs[p].tid] EXCEPT
     !.acks = IF p \in TickIds THEN @ + 1 ELSE @,
     !.ackedCompleted = IF procs[p].status = "completed" THEN @ + 1 ELSE @,
     !.ackedFailed = IF procs[p].status = "failed" THEN @ + 1 ELSE @]

\* a reportTaskStatus that goes on to the stats after a failed request
ReportResponseCountsFailure(p) ==
  /\ procs[p].pc = "rp_fetch"
  /\ \E ok \in BOOLEAN :
       /\ procs' = [procs EXCEPT ![p] = Goto(p, "rp_set_read")]
       /\ log' = IF ok THEN [log EXCEPT ![procs[p].tid] = Acknowledged(p)] ELSE log
  /\ UNCHANGED <<csVars, store, alarm, tabs, disp, intended, msgCount, stopDone>>

\* the task-status response: ok, or a failure that reportTaskStatus catches
ReportResponse(p) ==
  /\ procs[p].pc = "rp_fetch"
  /\ \E ok \in BOOLEAN :
       /\ procs' = [procs EXCEPT ![p] =
            IF ok THEN Goto(p, "rp_set_read")
            ELSE Return(p, ClearReport(Goto(p, procs[p].ret)))]
       /\ log' = IF ok THEN [log EXCEPT ![procs[p].tid] = Acknowledged(p)] ELSE log
  /\ UNCHANGED <<csVars, store, alarm, tabs, disp, intended, msgCount, stopDone>>

\* const stats = {...state.stats}; the counter of the status is raised
NewStats(st, status, err) ==
  IF status = "completed" THEN [st EXCEPT !.tasksCompleted = @ + 1]
  ELSE IF status = "failed"
       THEN [st EXCEPT !.tasksFailed = @ + 1, !.lastError = err]
       ELSE st

\* setState({stats, lastTask}): const current = await getState()
ReportSetRead(p) ==
  /\ procs[p].pc = "rp_set_read"
  /\ procs' = [procs EXCEPT ![p] = [Goto(p, "rp_set_write") EXCEPT !.cur = store]]
  /\ UNCHANGED <<csVars, store, alarm, tabs, disp, log, intended, msgCount, stopDone>>

\* the id reportTaskStatus was called with
ReportedId(p) ==
  IF p = MsgProc THEN TaskIdOf(procs[p].tid) ELSE procs[p].task.id

\* setState({stats, lastTask}): the write; broadcastState, and
\* reportTaskStatus returns
ReportSetWrite(p) ==
  /\ procs[p].pc = "rp_set_write"
  /\ store' = [procs[p].cur EXCEPT
                 !.stats = NewStats(procs[p].st, procs[p].status, procs[p].err),
                 !.lastTask = [id |-> ReportedId(p), status |-> procs[p].status]]
  /\ intended' = [intended EXCEPT
                 !.stats = NewStats(intended.stats, procs[p].status, procs[p].err),
                 !.lastTask = [id |-> ReportedId(p), status |-> procs[p].status]]
  /\ procs' = [procs EXCEPT ![p] = Return(p, ClearReport(Goto(p, procs[p].ret)))]
  /\ log' = IF p \in TickIds THEN [log EXCEPT ![p].counted = @ + 1] ELSE log
  /\ UNCHANGED <<csVars, alarm, tabs, disp, msgCount, stopDone>>

(***************************************************************************)
(* handleMessage (chrome.runtime.onMessage) and the lifecycle listeners.   *)
(***************************************************************************)
NoTickRunning == \A q \in TickIds : procs[q].pc \in {"idle", "done", "crashed"}

\* a message or lifecycle event arrives and its handler starts
MsgArrive ==
  /\ procs[MsgProc].kind = "none"
  /\ Started < MaxHandlers
  /\ msgCount' = msgCount + 1
  /\ \/ \E key \in {"k", ""} :
          /\ procs' = [procs EXCEPT ![MsgProc] =
                [IdleProc EXCEPT !.kind = "SET_API_KEY", !.pc = "m_set_read", !.key = key]]
          /\ UNCHANGED <<csVars, store, alarm, tabs, disp, log, intended, stopDone>>
     \/ \E kind \in {"START_AGENT", "STOP_AGENT"} :
          /\ procs' = [procs EXCEPT ![MsgProc] =
                [IdleProc EXCEPT !.kind = kind, !.pc = "m_set_read"]]
          /\ stopDone' = IF kind = "START_AGENT" THEN FALSE ELSE stopDone
          /\ UNCHANGED <<csVars, store, alarm, tabs, disp, log, intended>>
     \/ \E t \in TickIds, success \in BOOLEAN :
          \* TASK_RESULT {taskId, success, error} from the content script
          \* that received task t
          /\ disp[t] # "none"
          /\ procs' = [procs EXCEPT ![MsgProc] =
                [IdleProc EXCEPT !.kind = "TASK_RESULT", !.tid = t,
                   !.pc = "rp_read", !.ret = "free",
                   !.status = IF success THEN "completed" ELSE "failed",
                   !.err = IF success THEN NoErr ELSE Err("dispatcher error")]]
          /\ UNCHANGED <<csVars, store, alarm, tabs, disp, log, intended, stopDone>>
     \/ /\ NoTickRunning
        /\ procs' = [procs EXCEPT ![MsgProc] =
                [IdleProc EXCEPT !.kind = "onInstalled", !.pc = "m_set_read"]]
        /\ UNCHANGED <<csVars, store, alarm, tabs, disp, log, intended, stopDone>>
     \/ /\ NoTickRunning
        /\ procs' = [procs EXCEPT ![MsgProc] =
                [IdleProc EXCEPT !.kind = "onStartup", !.pc = "su_read"]]
        /\ UNCHANGED <<csVars, store, alarm, tabs, disp, log, intended, stopDone>>

\* setState(updates) of a handler: const current = await getState()
MsgSetRead ==
  /\ procs[MsgProc].pc = "m_set_read"
  /\ procs' = [procs EXCEPT ![MsgProc] = [Goto(MsgProc, "m_set_write") EXCEPT !.cur = store]]
  /\ UNCHANGED <<csVars, store, alarm, tabs, disp, log, intended, msgCount, stopDone>>

\* {...current, ...updates} for the updates of the handler
Updated(rec, kind, key) ==
  IF kind = "START_AGENT" THEN [rec EXCEPT !.isRunning = TRUE]
  ELSE IF kind = "STOP_AGENT" THEN [rec EXCEPT !.isRunning = FALSE]
  ELSE IF kind = "SET_API_KEY" THEN [rec EXCEPT !.apiKey = key]
  ELSE DEFAULT_STATE

\* setState(updates) of a handler: chrome.storage.local.set
MsgSetWrite ==
  /\ procs[MsgProc].pc = "m_set_write"
  /\ store' = Updated(procs[MsgProc].cur, procs[MsgProc].kind, procs[MsgProc].key)
  /\ intended' = Updated(intended, procs[MsgProc].kind, procs[MsgProc].key)
  /\ procs' = [procs EXCEPT ![MsgProc] =
       IF procs[MsgProc].kind = "START_AGENT"
       THEN [Goto(MsgProc, "sp_clear") EXCEPT !.cur = DEFAULT_STATE]
       ELSE IF procs[MsgProc].kind = "STOP_AGENT"
       THEN [Goto(MsgProc, "stop_clear") EXCEPT !.cur = DEFAULT_STATE]
       ELSE IdleProc]
  /\ UNCHANGED <<csVars, alarm, tabs, disp, log, msgCount, stopDone>>

\* startPolling: await chrome.alarms.clear(POLL_ALARM_NAME)
StartPollingClear ==
  /\ procs[MsgProc].pc = "sp_clear"
  /\ alarm' = FALSE
  /\ procs' = [procs EXCEPT ![MsgProc] = Goto(MsgProc, "sp_create")]
  /\ UNCHANGED <<csVars, store, tabs, disp, log, intended, msgCount, stopDone>>

\* startPolling: chrome.alarms.create(POLL_ALARM_NAME, ...); the handler ends
StartPollingCreate ==
  /\ procs[MsgProc].pc = "sp_create"
  /\ alarm' = TRUE
  /\ procs' = [procs EXCEPT ![MsgProc] = IdleProc]
  /\ UNCHANGED <<csVars, store, tabs, disp, log, intended, msgCount, stopDone>>

\* a STOP_AGENT that cancels: the ticks that wait for the reply of a
\* dispatcher are ended without a report
StopPollingCancels ==
  /\ procs[MsgProc].pc = "stop_clear"
  /\ alarm' = FALSE
  /\ stopDone' = TRUE
  /\ procs' = [q \in ProcIds |->
        IF q = MsgProc THEN IdleProc
        ELSE IF At(q, "tick", "await_reply") THEN Goto(q, "done")
        ELSE procs[q]]
  /\ log' = [q \in TickIds |->
        IF At(q, "tick", "await_reply") THEN [log[q] EXCEPT !.stopped = TRUE]
        ELSE log[q]]
  /\ UNCHANGED <<csVars, store, tabs, disp, intended, msgCount>>

\* STOP_AGENT: await stopPolling(); the handler ends
StopPolling ==
  /\ procs[MsgProc].pc = "stop_clear"
  /\ alarm' = FALSE
  /\ stopDone' = TRUE
  /\ procs' = [procs EXCEPT ![MsgProc] = IdleProc]
  /\ log' = [q \in TickIds |->
        IF At(q, "tick", "await_reply") THEN [log[q] EXCEPT !.stopped = TRUE]
        ELSE log[q]]
  /\ UNCHANGED <<csVars, store, tabs, disp, intended, msgCount>>

\* onStartup: const state = await getState(); if (state.isRunning) startPolling()
StartupRead ==
  /\ procs[MsgProc].pc = "su_read"
  /\ procs' = [procs EXCEPT ![MsgProc] =
       IF store.isRunning THEN Goto(MsgProc, "sp_clear") ELSE IdleProc]
  /\ UNCHANGED <<csVars, store, alarm, tabs, disp, log, intended, msgCount, stopDone>>

TickStep(p) ==
  \/ AlarmFire(p) \/ TickRead(p) \/ TickStopPolling(p)
  \/ FetchRead(p) \/ RegRead(p) \/ RegApi(p) \/ RegSend(p) \/ RegResponse(p)
  \/ RegSetRead(p) \/ RegSetWrite(p) \/ FetchRead2(p)
  \/ GetTaskApi(p) \/ GetTaskSend(p) \/ GetTaskResponse(p)
  \/ LastPollRead(p) \/ LastPollWrite(p)
  \/ FetchErrRead(p) \/ FetchErrSetRead(p) \/ FetchErrSetWrite(p)
  \/ Validate(p) \/ TabsQuery(p) \/ TabUpdate(p) \/ TabCreate(p)
  \/ TabLoaded(p) \/ SendExecute(p) \/ DispatcherReply(p) \/ Notify(p)

ReportStep(p) ==
  \/ ReportRead(p) \/ ReportApi(p) \/ ReportSend(p) \/ ReportResponse(p)
  \/ ReportSetRead(p) \/ ReportSetWrite(p)

MsgStep ==
  \/ MsgArrive \/ MsgSetRead \/ MsgSetWrite
  \/ StartPollingClear \/ StartPollingCreate \/ StopPolling \/ StartupRead

Next ==
  \/ \E p \in TickIds : TickStep(p)
  \/ \E p \in ProcIds : ReportStep(p)
  \/ MsgStep

Spec == Init /\ [][Next]_vars

TypeOK ==
  /\ store.isRunning \in BOOLEAN
  /\ alarm \in BOOLEAN
  /\ msgCount \in 0..MaxHandlers

(***************************************************************************)
(* Properties.                                                             *)
(***************************************************************************)
Finished(p) == IsTick(p) /\ procs[p].pc \in {"done", "crashed"}
HasTask(p) == IsTick(p) /\ procs[p].task # NoTaskPayload
\* the report requests the tick itself made for its task
OwnReports(p) == SelectSeq(log[p].reports, LAMBDA r : r.by = p)
\* the task is validated, being executed, outcome pending
InFlight(p) ==
  /\ HasTask(p)
  /\ procs[p].pc \in {"tabs_query", "tab_update", "tab_create", "wait_load",
                      "send", "await_reply", "rp_read", "rp_api", "rp_fetch",
                      "rp_set_read", "rp_set_write", "notify"}

\* C1: at most one task is in flight, and while an alarm-listener invocation
\* is in its fetchTask, executeTask, reportTaskStatus sequence, an invocation
\* that started after it has issued no get-task request and sent no
\* EXECUTE_TASK message.
C1_SingleFlight ==
  /\ Cardinality({p \in TickIds : InFlight(p)}) <= 1
  /\ \A p, q \in TickIds :
       p < q /\ Busy(p) /\ IsTick(q) =>
         log[q].getTaskReqs = <<>> /\ log[q].sent = 0

\* C2: for every task returned by get-task exactly one report-task-status
\* request is issued for its id: never more than one, and one when the tick
\* that fetched it has ended.
C2_ExactlyOneReport ==
  \A p \in TickIds :
    HasTask(p) =>
      /\ Len(log[p].reports) <= 1
      /\ Finished(p) => Len(log[p].reports) = 1

\* the write of onInstalled: setState(DEFAULT_STATE)
ResetStep ==
  /\ procs[MsgProc].kind = "onInstalled"
  /\ procs[MsgProc].pc = "m_set_write"
  /\ procs'[MsgProc].pc # "m_set_write"

\* C3: between two successive persisted states tasksCompleted and tasksFailed
\* never decrease, except in the reset to the defaults by onInstalled.
C3_CountersMonotone ==
  [][ \/ ResetStep
      \/ /\ store'.stats.tasksCompleted >= store.stats.tasksCompleted
         /\ store'.stats.tasksFailed >= store.stats.tasksFailed ]_vars

\* the platform and the task type are of the closed enumerations, compared
\* without regard to letter case
Recognized(task) ==
  /\ task.platform.t = "str"
  /\ \E a \in ALLOWED_PLATFORMS : toLowerCase(task.platform.v) = a
  /\ task.task_type.t = "str"
  /\ \E a \in ALLOWED_TYPES : toLowerCase(task.task_type.v) = a

\* the safety half of C4: no EXECUTE_TASK is sent and no dispatcher runs for
\* a task with an unrecognized platform or task type
NoExecuteForUnrecognized ==
  \A p \in TickIds :
    HasTask(p) /\ ~Recognized(procs[p].task) =>
      log[p].sent = 0 /\ disp[p] = "none"

\* C4: a task with an unrecognized platform or task type never gets an
\* EXECUTE_TASK message or a dispatcher invocation, and the tick that fetched
\* it ends with a 'rejected' report.
C4_UnrecognizedRejected ==
  /\ NoExecuteForUnrecognized
  /\ \A p \in TickIds :
       HasTask(p) /\ ~Recognized(procs[p].task) /\ Finished(p) =>
         /\ Len(OwnReports(p)) = 1
         /\ OwnReports(p)[1].status = "rejected"

\* validateTask returns valid = false for the task of tick p
Rejects(p) ==
  /\ HasTask(p)
  /\ ~validateTaskThrows(procs[p].task)
  /\ ~validateTask(procs[p].task).valid

Count(tr, ev) == Len(SelectSeq(tr, LAMBDA e : e = ev))

\* C5: for a task that validateTask rejects, executeTask makes no tab query,
\* activation or creation and sends no message; its only effect is one
\* report-task-status request with status 'rejected' and the validation
\* reason, and the task is not validated or executed a second time.
C5_RejectedBeforeAnyEffect ==
  \A p \in TickIds :
    Rejects(p) =>
      /\ log[p].tabOps = 0 /\ log[p].created = 0
      /\ log[p].sent = 0 /\ disp[p] = "none"
      /\ Len(log[p].reports) <= 1
      /\ \A i \in 1..Len(log[p].reports) :
           /\ log[p].reports[i].status = "rejected"
           /\ log[p].reports[i].err = validateTask(procs[p].task).reason
           /\ log[p].reports[i].by = p
      /\ Finished(p) => Len(log[p].reports) = 1
      /\ Count(log[p].trace, "validate") <= 1

\* a tick ended after the rejected report of an invalid task
C5_Witness ==
  \E p \in TickIds :
    /\ Rejects(p) /\ Finished(p)
    /\ Len(log[p].reports) = 1 /\ log[p].reports[1].sent

\* the position of a step in the order of one tick
Rank(ev) ==
  IF ev = "response" THEN 1
  ELSE IF ev = "validate" THEN 2
  ELSE IF ev = "send" THEN 3
  ELSE IF ev = "outcome" THEN 4
  ELSE 5

\* C6: within one tick the steps happen in the order get-task response,
\* validateTask, EXECUTE_TASK sent, dispatcher outcome received, report
\* request; and the tick issues a 'completed' or 'failed' report only when
\* the dispatcher is not executing the task any more ('completed' only after
\* its outcome was received).
C6_StrictOrder ==
  \A p \in TickIds :
    /\ \A i, j \in 1..Len(log[p].trace) :
         i < j => /\ Rank(log[p].trace[i]) <= Rank(log[p].trace[j])
                  /\ Rank(log[p].trace[i]) = Rank(log[p].trace[j])
                       => log[p].trace[i] = "report"
    /\ Len(log[p].trace) > 0 => log[p].trace[1] = "response"
    /\ Count(log[p].trace, "send") > 0 => Count(log[p].trace, "validate") = 1
    /\ Count(log[p].trace, "outcome") > 0 => Count(log[p].trace, "send") = 1
    /\ \A i \in 1..Len(OwnReports(p)) :
         /\ OwnReports(p)[i].status \in {"completed", "failed"}
              => disp[p] # "running" /\ Count(log[p].trace, "validate") = 1
         /\ OwnReports(p)[i].status = "completed"
              => disp[p] = "finished" /\ Count(log[p].trace, "outcome") = 1

\* a tick reported 'completed' after the dispatcher's outcome
C6_Witness ==
  \E p \in TickIds :
    /\ log[p].trace = <<"response", "validate", "send", "outcome", "report">>
    /\ OwnReports(p)[1].status = "completed"

\* C7: when the agent has no agentId and register-agent fails in a tick, the
\* tick makes no get-task request and the persisted stats.lastError is the
\* registration failure message (stated for a tick that ran alone).
C7_RegistrationFailureRecorded ==
  \A p \in TickIds :
    log[p].regFailed /\ Finished(p) /\ Started = 1 =>
      /\ log[p].getTaskReqs = <<>>
      /\ store.stats.lastError = log[p].regErr

\* the steps that clear the poll alarm
StopAgentDisarms ==
  /\ procs[MsgProc].kind = "STOP_AGENT" /\ procs[MsgProc].pc = "stop_clear"
  /\ procs'[MsgProc].pc # "stop_clear"
TickNotRunningDisarms ==
  \E p \in TickIds : procs[p].pc = "al_stop" /\ procs'[p].pc = "done"
\* chrome.alarms.clear of startPolling, followed by chrome.alarms.create
Rearms == procs[MsgProc].pc = "sp_clear" /\ procs'[MsgProc].pc = "sp_create"

TickHadError(p) ==
  \/ log[p].regFailed
  \/ procs[p].pc = "crashed"
  \/ \E i \in 1..Len(log[p].reports) : log[p].reports[i].status = "failed"

C9_StopStaysStopped ==
  [][ /\ ( /\ procs[MsgProc].kind = "START_AGENT"
           /\ procs[MsgProc].pc = "sp_create"
           /\ procs'[MsgProc].pc # "sp_create" )
           => store'.isRunning /\ alarm'
      /\ stopDone' => ~store'.isRunning /\ ~alarm' ]_vars

\* C10: no update of the persisted record is lost: the record always holds
\* the effect of every update made so far, each applied to its own keys.
C10_NoLostUpdate == store = intended

(***************************************************************************)
(* validateTask called on its own, on every payload of RawPayloads.        *)
(***************************************************************************)
\* the service worker at rest
SwIdle ==
  /\ store = DEFAULT_STATE
  /\ alarm = FALSE
  /\ procs = [p \in ProcIds |-> IdleProc]
  /\ tabs = {}
  /\ disp = [p \in TickIds |-> "none"]
  /\ log = [p \in TickIds |-> EmptyLog]
  /\ intended = store
  /\ msgCount = 0
  /\ stopDone = FALSE

\* a text of n characters
TextOfLength(n) == [i \in 1..n |-> "a"]

RawIds == { Str(<<"t","1">>), Str(<<>>), Undef, Num(<<"7">>) }
RawPlatforms ==
  { Str(<<"f","a","c","e","b","o","o","k">>),
    Str(<<"T","w","i","t","t","e","r">>),
    Str(<<"I","N","S","T","A","G","R","A","M">>),
    Str(<<"t","i","k","t","o","k">>),
    Str(<<"f","a","c","e","b","o","o","k"," ">>),
    Undef, Null, Num(<<"5">>) }
RawTypes ==
  { Str(<<"p","o","s","t">>), Str(<<"L","i","k","e">>),
    Str(<<"d","a","n","c","e">>), Undef, Num(<<"1">>) }
RawTexts ==
  { <<>>, <<"h","i">>,
    <<"a","<","S","c","R","i","P","t",">">>,
    <<"J","a","v","a","S","c","r","i","p","t",":","x">>,
    <<"<","b"," ","O","N","c","l","i","c","k"," ","\t","=","f",">">>,
    <<"o","n","=","1">>, <<"o","n"," ","x","=","1">>,
    <<"s","c","r","i","p","t">>,
    TextOfLength(MAX_CONTENT_LENGTH), TextOfLength(MAX_CONTENT_LENGTH + 1) }

\* what JSON can deliver as the task
RawPayloads ==
  { Undef, Null, Num(<<"5">>), Str(<<"t","1">>) } \cup
  { MkTask(id, pf, ty, tx) :
      id \in RawIds, pf \in RawPlatforms, ty \in RawTypes, tx \in RawTexts }

InitValidate ==
  /\ SwIdle
  /\ hc = NotCalled
  /\ sn = NotCalled
  /\ \E raw \in RawPayloads : val = [pc |-> "call", raw |-> raw]
  /\ fe = NotCalled
  /\ ht = NotCalled
  /\ lk = NotCalled
  /\ dp = NotCalled

\* const validation = validateTask(task)
CallValidateTask ==
  /\ val.pc = "call"
  /\ val' = IF validateTaskThrows(val.raw)
            THEN [pc |-> "raised", raw |-> val.raw]
            ELSE [pc |-> "returned", raw |-> val.raw,
                  result |-> validateTask(val.raw)]
  /\ UNCHANGED <<swVars, fe, ht, lk, dp, hc, sn>>

NextValidate == CallValidateTask

SpecValidate == InitValidate /\ [][NextValidate]_vars

\* the call has ended, by a return or by an exception
ValEnded == val.pc \in {"raised", "returned"}
\* the call returned valid=false
ValInvalid == val.pc = "returned" /\ ~val.result.valid
\* the payload is a record whose id is a non-empty string
HasId(raw) == IsObject(raw) /\ raw.id.t = "str" /\ raw.id.v # <<>>
\* v is a string that, in lower case, is a member of allowed
InEnum(v, allowed) == v.t = "str" /\ toLowerCase(v.v) \in allowed

\* C11: for every task with a non-empty string id whose platform, compared
\* case-insensitively, is not facebook, instagram or twitter, validateTask
\* returns valid=false and the reason contains the platform value.
C11_InvalidPlatformNamed ==
  (ValEnded /\ HasId(val.raw) /\ ~InEnum(val.raw.platform, ALLOWED_PLATFORMS))
    => /\ ValInvalid
       /\ val.result.reason =
            Msg("Invalid platform: ", StringOf(val.raw.platform))

\* the same, for the calls that return: every platform that is a string
\* outside the enumeration, missing or null is rejected and named
C11_NamedWhenReturned ==
  (val.pc = "returned" /\ HasId(val.raw)
     /\ ~InEnum(val.raw.platform, ALLOWED_PLATFORMS))
    => /\ ~val.result.valid
       /\ val.result.reason =
            Msg("Invalid platform: ", StringOf(val.raw.platform))

\* C12: for every task whose content.text is longer than 5000 characters
\* validateTask returns valid=false, and a text of exactly 5000 characters
\* is not rejected for its length.
C12_LengthLimit ==
  (ValEnded /\ IsObject(val.raw))
    => /\ Len(val.raw.text) > MAX_CONTENT_LENGTH => ValInvalid
       /\ (Len(val.raw.text) = MAX_CONTENT_LENGTH /\ val.pc = "returned")
            => val.result.reason # Err("Content too long")

\* the same, for the calls that return
C12_LimitWhenReturned ==
  (val.pc = "returned" /\ IsObject(val.raw))
    => /\ Len(val.raw.text) > MAX_CONTENT_LENGTH => ~val.result.valid
       /\ Len(val.raw.text) = MAX_CONTENT_LENGTH
            => val.result.reason # Err("Content too long")

\* texts that contain '<script', 'javascript:' or on<word>= in mixed case
ScriptTexts ==
  { <<"a","<","S","c","R","i","P","t",">">>,
    <<"J","a","v","a","S","c","r","i","p","t",":","x">>,
    <<"<","b"," ","O","N","c","l","i","c","k"," ","\t","=","f",">">> }

\* C13: for every task whose content.text contains '<script', 'javascript:'
\* or an inline event-handler pattern, in any letter case, validateTask
\* returns valid=false.
C13_ScriptRejected ==
  (ValEnded /\ IsObject(val.raw) /\ val.raw.text \in ScriptTexts)
    => ValInvalid

\* the same, for the calls that return; the texts that only resemble a
\* pattern ('on=1', 'on x=1', 'script') are not rejected as suspicious
C13_RejectedWhenReturned ==
  (val.pc = "returned" /\ IsObject(val.raw))
    => /\ val.raw.text \in ScriptTexts => ~val.result.valid
       /\ val.raw.text \in { <<"o","n","=","1">>, <<"o","n"," ","x","=","1">>,
                             <<"s","c","r","i","p","t">> }
            => val.result.reason # Err("Suspicious content detected")

\* the payload meets none of the rejection conditions
Acceptable(raw) ==
  /\ HasId(raw)
  /\ InEnum(raw.platform, ALLOWED_PLATFORMS)
  /\ InEnum(raw.task_type, ALLOWED_TYPES)
  /\ Len(raw.text) <= MAX_CONTENT_LENGTH
  /\ ~dangerous(raw.text)

\* C14: validateTask is total: for every raw payload it returns a result
\* and never raises, and the result is valid=true exactly for the payloads
\* that meet none of the rejection conditions.
C14_TotalFunction ==
  /\ val.pc # "raised"
  /\ val.pc = "returned" => (val.result.valid <=> Acceptable(val.raw))

\* the part of it that holds: a call that returns accepts exactly the
\* acceptable payloads
C14_ExactWhenReturned ==
  val.pc = "returned" => (val.result.valid <=> Acceptable(val.raw))

(***************************************************************************)
(* findElement(selectors, timeout) called on its own.  Time is in          *)
(* milliseconds; a pass over the selectors is synchronous and takes no     *)
(* time, the page changes while findElement sleeps.                        *)
(***************************************************************************)
\* the longest timeout a query is given
MaxTimeout == 500
\* the strategies of one query
MaxStrategies == 2

\* await this.delay(200, 300)
DELAY_MIN == 200
DELAY_MAX == 300
\* Math.random() * (maxMs - minMs) + minMs, the extremes
Delays == {DELAY_MIN, DELAY_MAX - 1}

Timeouts == {0, DELAY_MIN + 50, MaxTimeout}

\* A strategy is a selector string: a structural selector (well formed or
\* not), a path starting with '/', 'aria:L' or 'text:T'.  pseudo tells that
\* L or T is the name of a CSS pseudo-class ('text:link'), which makes the
\* whole string a well-formed structural selector.
Strategy(kind, wellFormed, pseudo) ==
  [kind |-> kind, wellFormed |-> wellFormed, pseudo |-> pseudo]
Strategies ==
  { Strategy("css", TRUE, FALSE), Strategy("css", FALSE, FALSE),
    Strategy("xpath", FALSE, FALSE),
    Strategy("aria", FALSE, FALSE), Strategy("aria", TRUE, TRUE),
    Strategy("text", FALSE, FALSE), Strategy("text", TRUE, TRUE) }
Queries ==
  UNION { [1..n -> Strategies] : n \in 1..MaxStrategies }

\* how an element is rendered: visible, or not visible for one reason
Looks ==
  {"visible", "displayNone", "visibilityHidden", "opacity0", "zeroWidth", "zeroHeight"}

\* window.getComputedStyle(element) and element.getBoundingClientRect()
Rendering(look) ==
  [ display |-> IF look = "displayNone" THEN "none" ELSE "block",
    visibility |-> IF look = "visibilityHidden" THEN "hidden" ELSE "visible",
    opacity |-> IF look = "opacity0" THEN "0" ELSE "1",
    width |-> IF look = "zeroWidth" THEN 0 ELSE 20,
    height |-> IF look = "zeroHeight" THEN 0 ELSE 10 ]

\* The page: for strategy k, what the lookup of its kind yields first,
\* nothing or an element with its rendering (the element is named k).
DomStates == [1..MaxStrategies -> {"none"} \cup Looks]

\* document.querySelector(selector) raises a SyntaxError
querySelectorThrows(sel) == ~sel.wellFormed

\* document.querySelector(selector): the element, 0 for null.  A string
\* 'aria:hover' or 'text:link' selects elements named aria or text, of
\* which a page has none.
querySelector(sel, k, dom) ==
  IF sel.kind = "css" /\ dom[k] # "none" THEN k ELSE 0

\* the lookup findElement makes for one selector: the element, or 0
Lookup(sel, k, dom) ==
  IF querySelectorThrows(sel) THEN 0
  ELSE IF querySelector(sel, k, dom) # 0 THEN querySelector(sel, k, dom)
  ELSE IF sel.kind \in {"xpath", "aria", "text"} /\ dom[k] # "none" THEN k
  ELSE 0

\* an isVisible that does not look at the opacity
isVisibleIgnoresOpacity(el, dom) ==
  /\ el # 0
  /\ Rendering(dom[el]).display # "none"
  /\ Rendering(dom[el]).visibility # "hidden"
  /\ Rendering(dom[el]).width > 0
  /\ Rendering(dom[el]).height > 0
\* isVisible(element)
isVisible(el, dom) ==
  /\ el # 0
  /\ Rendering(dom[el]).display # "none"
  /\ Rendering(dom[el]).visibility # "hidden"
  /\ Rendering(dom[el]).opacity # "0"
  /\ Rendering(dom[el]).width > 0
  /\ Rendering(dom[el]).height > 0

\* one pass of the for loop: the element returned, or 0
Pass(sels, dom) ==
  IF \E k \in DOMAIN sels : isVisible(Lookup(sels[k], k, dom), dom)
  THEN CHOOSE k \in DOMAIN sels :
         /\ isVisible(Lookup(sels[k], k, dom), dom)
         /\ \A j \in 1..(k - 1) : ~isVisible(Lookup(sels[j], j, dom), dom)
  ELSE 0

OtherThanFe == <<swVars, val, ht, lk, dp, hc, sn>>

InitFind ==
  /\ SwIdle
  /\ hc = NotCalled
  /\ sn = NotCalled
  /\ val = NotCalled
  /\ dp = NotCalled
  /\ ht = NotCalled
  /\ lk = NotCalled
  /\ \E sels \in Queries, timeout \in Timeouts, dom \in DomStates :
       fe = [ pc |-> "loop", sels |-> sels, timeout |-> timeout,
              startTime |-> 0, now |-> 0, dom |-> dom,
              passes |-> 0, passDom |-> dom, ret |-> 0 ]

\* while (Date.now() - startTime < timeout) { for (...) {...} : one pass
FindPass ==
  /\ fe.pc = "loop"
  /\ fe.now - fe.startTime < fe.timeout
  /\ LET el == Pass(fe.sels, fe.dom) IN
       fe' = [fe EXCEPT !.pc = IF el # 0 THEN "returned" ELSE "delay",
                        !.ret = el,
                        !.passes = 1,
                        !.passDom = fe.dom]
  /\ UNCHANGED OtherThanFe

\* the loop condition fails: return null
FindTimeout ==
  /\ fe.pc = "loop"
  /\ ~(fe.now - fe.startTime < fe.timeout)
  /\ fe' = [fe EXCEPT !.pc = "returned", !.ret = 0]
  /\ UNCHANGED OtherThanFe

\* await this.delay(200, 300), with the default range of delay
FindDelayDefaultRange ==
  /\ fe.pc = "delay"
  /\ \E d \in {500, 1999}, dom \in DomStates :
       fe' = [fe EXCEPT !.pc = "loop", !.now = fe.now + d, !.dom = dom]
  /\ UNCHANGED OtherThanFe

\* await this.delay(200, 300); the page may change meanwhile
FindDelay ==
  /\ fe.pc = "delay"
  /\ \E d \in Delays, dom \in DomStates :
       fe' = [fe EXCEPT !.pc = "loop", !.now = fe.now + d, !.dom = dom]
  /\ UNCHANGED OtherThanFe

NextFind == FindPass \/ FindTimeout \/ FindDelay

SpecFind == InitFind /\ [][NextFind]_vars

\* time since findElement was called
Elapsed == fe.now - fe.startTime
\* findElement returned null
FoundNothing == fe.pc = "returned" /\ fe.ret = 0
NothingMatches == [k \in 1..MaxStrategies |-> "none"]

\* C15: when no strategy ever matches, findElement returns null no earlier
\* than the timeout after the call and no later than the timeout plus one
\* polling interval of at most 300 ms.
C15_NotFoundTiming ==
  FoundNothing
    => /\ Elapsed >= fe.timeout
       /\ Elapsed <= fe.timeout + DELAY_MAX

\* a query that never matched returned null later than its timeout
C15_Witness ==
  /\ FoundNothing
  /\ fe.passes = 1 /\ fe.passDom = NothingMatches /\ fe.dom = NothingMatches
  /\ fe.timeout = MaxTimeout
  /\ Elapsed > fe.timeout

\* in page dom the lookup of the kind of strategy k yields a visible element
\* (a selector that is no selector at all has no lookup)
HasVisibleCandidate(sels, k, dom) ==
  /\ k \in DOMAIN sels
  /\ dom[k] = "visible"
  /\ ~(sels[k].kind = "css" /\ ~sels[k].wellFormed)

\* the earliest strategy with a visible candidate, 0 if there is none
EarliestVisible(sels, dom) ==
  IF \E k \in DOMAIN sels : HasVisibleCandidate(sels, k, dom)
  THEN CHOOSE k \in DOMAIN sels :
         /\ HasVisibleCandidate(sels, k, dom)
         /\ \A j \in 1..(k - 1) : ~HasVisibleCandidate(sels, j, dom)
  ELSE 0

\* C16: the first pass in which any strategy has a visible candidate
\* returns, at once, the candidate of the earliest such strategy, and a pass
\* in which none has returns nothing.
C16_EarliestVisibleReturned ==
  fe.passes = 1
    => /\ fe.ret = EarliestVisible(fe.sels, fe.passDom)
       /\ fe.ret # 0 => fe.pc = "returned"

\* the strings querySelector accepts: structural selectors, and 'aria:L' or
\* 'text:T' with L or T the name of a pseudo-class
QuerySelectorAcceptsAll ==
  \A k \in DOMAIN fe.sels : fe.sels[k].kind = "css" \/ fe.sels[k].wellFormed

\* the same, for the queries all of whose strings querySelector accepts
C16_HoldsWhenAccepted ==
  (fe.passes = 1 /\ QuerySelectorAcceptsAll)
    => /\ fe.ret = EarliestVisible(fe.sels, fe.passDom)
       /\ fe.ret # 0 => fe.pc = "returned"

\* C17: each strategy is looked up by the lookup of its kind, so a pass in
\* which the only strategy with a visible candidate is an 'aria:', 'text:'
\* or path strategy returns that strategy's element.
C17_LookupByKind ==
  \A k \in DOMAIN fe.sels :
    ( /\ fe.passes = 1
      /\ fe.sels[k].kind \in {"xpath", "aria", "text"}
      /\ HasVisibleCandidate(fe.sels, k, fe.passDom)
      /\ \A j \in DOMAIN fe.sels \ {k} :
           ~HasVisibleCandidate(fe.sels, j, fe.passDom) )
    => fe.ret = k /\ fe.pc = "returned"

(***************************************************************************)
(* humanType(element, text) called on its own, on an element that starts   *)
(* empty and takes the focus.                                              *)
(***************************************************************************)
ElementKinds == {"input", "textarea", "contenteditable"}

\* the texts typed: empty, short, and longer than MISTAKE_MIN_LENGTH
TypedTexts ==
  { <<>>, <<"h","i">>, <<"h","e","l","l","o">>,
    <<"h","e","l","l","o"," ","w","o","r","l","d">> }

\* a mistake is made only if text.length > 10
MISTAKE_MIN_LENGTH == 10
\* 'abcdefghijklmnop'
WrongChars == {LowerCase[i] : i \in 1..16}

\* nativeInputValueSetter: the value setter of HTMLInputElement.prototype,
\* which is defined and so is taken for every element.  Called on an
\* element that is no HTMLInputElement it raises a TypeError.
typeCharThrows(kind) == kind = "textarea"

\* typeChar(element, char): the content after it; the caret is at the end
typeChar(content, char) == Append(content, char)

\* document.execCommand('delete'): the character before the caret goes
execDelete(content) ==
  IF content = <<>> THEN content ELSE SubSeq(content, 1, Len(content) - 1)

OtherThanHt == <<swVars, val, fe, lk, dp, hc, sn>>

InitType ==
  /\ SwIdle
  /\ hc = NotCalled
  /\ sn = NotCalled
  /\ val = NotCalled
  /\ dp = NotCalled
  /\ fe = NotCalled
  /\ lk = NotCalled
  /\ \E kind \in ElementKinds, text \in TypedTexts :
       ht = [ pc |-> "loop", kind |-> kind, text |-> text, i |-> 1,
              content |-> <<>>, mistakes |-> 0, mistakeAt |-> {} ]

\* Math.random() < mistakeChance && text.length > 10: type a wrong character
TypeWrongChar ==
  /\ ht.pc = "loop"
  /\ ht.i <= Len(ht.text)
  /\ Len(ht.text) > MISTAKE_MIN_LENGTH
  /\ \E wrongChar \in WrongChars :
       ht' = IF typeCharThrows(ht.kind)
             THEN [ht EXCEPT !.pc = "raised"]
             ELSE [ht EXCEPT !.pc = "delete",
                             !.content = typeChar(ht.content, wrongChar),
                             !.mistakes = 1,
                             !.mistakeAt = @ \cup {ht.i}]
  /\ UNCHANGED OtherThanHt

\* document.execCommand('delete', false, null)
TypeDelete ==
  /\ ht.pc = "delete"
  /\ ht' = [ht EXCEPT !.pc = "char", !.content = execDelete(ht.content)]
  /\ UNCHANGED OtherThanHt

\* await this.typeChar(element, char), with or without a mistake before it
TypeCorrectChar ==
  /\ \/ ht.pc = "char"
     \/ ht.pc = "loop" /\ ht.i <= Len(ht.text)
  /\ ht' = IF typeCharThrows(ht.kind)
           THEN [ht EXCEPT !.pc = "raised"]
           ELSE [ht EXCEPT !.pc = "loop", !.i = ht.i + 1,
                           !.content = typeChar(ht.content, ht.text[ht.i])]
  /\ UNCHANGED OtherThanHt

\* i = text.length: humanType returns
TypeReturn ==
  /\ ht.pc = "loop"
  /\ ht.i > Len(ht.text)
  /\ ht' = [ht EXCEPT !.pc = "returned"]
  /\ UNCHANGED OtherThanHt

NextType == TypeWrongChar \/ TypeDelete \/ TypeCorrectChar \/ TypeReturn

SpecType == InitType /\ [][NextType]_vars

\* C18: for every text and every kind of element (input, textarea,
\* contenteditable) that starts empty, humanType ends with the content of the
\* element equal to the text, with or without mistakes on the way.
C18_TypedTextExact ==
  ht.pc \in {"returned", "raised"}
    => ht.pc = "returned" /\ ht.content = ht.text

\* the same, for an input and a contenteditable element
C18_ExactUnlessTextarea ==
  (ht.pc \in {"returned", "raised"} /\ ht.kind # "textarea")
    => ht.pc = "returned" /\ ht.content = ht.text

\* a text typed with a mistake that was corrected
C18_MistakeCorrected ==
  ht.pc = "returned" /\ ht.mistakes = 1 /\ ht.content = ht.text

(***************************************************************************)
(* performLike(targetUrl) of the three content scripts, called on its own. *)
(* The target is the post at targetUrl, or the post of the current page    *)
(* when no targetUrl is given.  A document that shows the target shows its *)
(* like button in the state of the target.                                 *)
(***************************************************************************)
\* what findElement returns for a like button: null, a button that is not
\* pressed, or one that carries the mark of the liked state (aria-pressed
\* or class 'liked' on Facebook, data-testid 'unlike' on Twitter)
LikeButtons == {"null", "plain", "pressed"}

\* the outcomes of an action
Success == [success |-> TRUE, error |-> NoErr]
Failure(text) == [success |-> FALSE, error |-> Err(text)]

\* window.location.href against targetUrl: the page of the target, another
\* page whose address contains targetUrl, or another page
Locations == {"same", "includes", "different"}

OtherThanLk == <<swVars, val, fe, ht, dp, hc, sn>>

InitLike ==
  /\ SwIdle
  /\ hc = NotCalled
  /\ sn = NotCalled
  /\ val = NotCalled
  /\ dp = NotCalled
  /\ fe = NotCalled
  /\ ht = NotCalled
  /\ \E platform \in ALLOWED_PLATFORMS, targetUrl \in BOOLEAN,
        loc \in Locations, liked \in BOOLEAN :
       /\ ~targetUrl => loc = "same"
       /\ lk = [ pc |-> "start", platform |-> PlatformName(platform),
                 targetUrl |-> targetUrl, loc |-> loc,
                 liked |-> liked,
                 doc |-> IF loc = "same" THEN "target" ELSE "other",
                 assigned |-> 0, clicks |-> 0, ret |-> Success ]

\* the test before window.location.href = targetUrl
LikeNavigates(platform, targetUrl, loc) ==
  IF platform = "facebook"
  THEN targetUrl /\ loc = "different"    \* !href.includes(targetUrl)
  ELSE targetUrl

\* if (targetUrl ...) { window.location.href = targetUrl; ... }
LikeStart ==
  /\ lk.pc = "start"
  /\ lk' = IF LikeNavigates(lk.platform, lk.targetUrl, lk.loc)
           THEN [lk EXCEPT !.pc = "settle", !.assigned = 1]
           ELSE [lk EXCEPT !.pc = "find"]
  /\ UNCHANGED OtherThanLk

\* await Utils.delay(...) after the assignment: the navigation unloads the
\* document and the content script with it, or it has not committed when the
\* delay ends (or only the fragment changed) and the script goes on
LikeSettle ==
  /\ lk.pc = "settle"
  /\ \/ lk' = [lk EXCEPT !.pc = "destroyed"]
     \/ lk' = [lk EXCEPT !.pc = "find"]
  /\ UNCHANGED OtherThanLk

\* the like buttons findElement may return in the current document
ButtonsShown ==
  IF lk.doc = "target"
  THEN IF lk.liked THEN {"pressed"} ELSE {"plain"}
  ELSE LikeButtons

\* Instagram: const unlikeBtn = await Utils.findElement(unlikeButton, 2000)
LikeFindUnlike ==
  /\ lk.pc = "find" /\ lk.platform = "instagram"
  /\ \E btn \in ButtonsShown :
       lk' = IF btn = "pressed"
             THEN [lk EXCEPT !.pc = "returned", !.ret = Success]
             ELSE [lk EXCEPT !.pc = "find_like"]
  /\ UNCHANGED OtherThanLk

\* const likeBtn = await Utils.findElement(SELECTORS.likeButton ...) and the
\* test of the liked state (Instagram's likeButton selectors match no
\* unlike button)
LikeFind ==
  /\ \/ lk.pc = "find" /\ lk.platform # "instagram"
     \/ lk.pc = "find_like"
  /\ \E btn \in ButtonsShown :
       /\ lk.pc = "find_like" => btn # "pressed"
       /\ lk' = IF btn = "null"
                THEN [lk EXCEPT !.pc = "returned",
                                !.ret = Failure("Like gomb nem talalhato")]
                ELSE IF btn = "pressed"
                THEN [lk EXCEPT !.pc = "returned", !.ret = Success]
                ELSE [lk EXCEPT !.pc = "click"]
  /\ UNCHANGED OtherThanLk

\* await Utils.humanClick(likeBtn); return { success: true }
LikeClick ==
  /\ lk.pc = "click"
  /\ lk' = [lk EXCEPT !.pc = "returned", !.clicks = lk.clicks + 1,
                      !.ret = Success]
  /\ UNCHANGED OtherThanLk

NextLike == LikeStart \/ LikeSettle \/ LikeFindUnlike \/ LikeFind \/ LikeClick

SpecLike == InitLike /\ [][NextLike]_vars

\* the action has ended: it returned, or its document was unloaded
LikeEnded == lk.pc \in {"returned", "destroyed"}

\* C19: on each platform a like action against a target that is already
\* liked returns {success: true} without a call of humanClick.
C19_LikedReturnsWithoutClick ==
  (LikeEnded /\ lk.liked)
    => /\ lk.pc = "returned" /\ lk.ret = Success
       /\ lk.clicks = 0

\* the part of it that holds: in a document that shows the liked target
\* nothing is clicked, and an action that finds the target liked without
\* assigning the location returns success
C19_NeverToggledOff ==
  (lk.liked /\ lk.doc = "target")
    => /\ lk.clicks = 0
       /\ (LikeEnded /\ lk.assigned = 0) => lk.pc = "returned" /\ lk.ret = Success

(***************************************************************************)
(* The Instagram dispatcher and tasks without media (specification Spec).  *)
(***************************************************************************)
\* the dispatcher of the task of tick p has answered
Answered(p) == Count(log[p].trace, "outcome") = 1

\* C20: an Instagram post or story task with an empty media list passes
\* validateTask; the dispatcher answers success=false with the media-required
\* error before any element resolution, click, navigation or fetch, and the
\* orchestrator reports the task as 'failed' with that error.
C20_MediaRequiredFailsFast ==
  \A p \in TickIds :
    (HasTask(p) /\ MediaRequired(procs[p].task)) =>
      /\ ~validateTaskThrows(procs[p].task)
      /\ validateTask(procs[p].task).valid
      /\ disp[p] \in {"none", "running", "refused"}
      /\ Answered(p) =>
           /\ disp[p] = "refused"
           /\ \A i \in 1..Len(OwnReports(p)) :
                /\ OwnReports(p)[i].status = "failed"
                /\ OwnReports(p)[i].err = MediaError(procs[p].task)
           /\ Finished(p) => Len(OwnReports(p)) = 1

\* a tick ended after it reported an Instagram post without media as failed
C20_Witness ==
  \E p \in TickIds :
    /\ HasTask(p) /\ MediaRequired(procs[p].task)
    /\ procs[p].task.task_type = Str(<<"p","o","s","t">>)
    /\ Answered(p) /\ Finished(p) /\ disp[p] = "refused"
    /\ Len(OwnReports(p)) = 1
    /\ OwnReports(p)[1].sent
    /\ OwnReports(p)[1].status = "failed"
    /\ OwnReports(p)[1].err = Err("Instagram poszthoz kep szukseges")

(***************************************************************************)
(* The platform dispatchers: handleTask and the action routines of the    *)
(* Facebook, Instagram and Twitter content scripts (specification         *)
(* SpecDispatch).  A routine is the list of its statements in source      *)
(* order; a statement runs when its conditions hold for the task and for  *)
(* the local variables that earlier statements assigned.                  *)
(***************************************************************************)
\* one statement: the operation, the local variable it assigns or uses, the
\* enclosing if-conditions, and an argument of the operation
St(op, slot, when, arg) == [op |-> op, slot |-> slot, when |-> when, arg |-> arg]
Always == {}
IfText == {<<"text", "yes">>}            \* if (content.text)
IfMedia == {<<"media", "yes">>}          \* if (content.media_urls && length > 0)
IfNull(slot) == {<<slot, "null">>}       \* if (!x)
IfFound(slot) == {<<slot, "found">>}     \* if (x)

\* uploadImages of the Twitter script, for one image: a failed download or
\* a missing file input is logged inside the loop and the routine goes on
TW_uploadImages ==
  << St("fetch", "file", IfMedia, "caught"),
     St("query", "fileInput", IfMedia \cup IfFound("file"), "css"),
     St("upload", "fileInput", IfMedia \cup IfFound("fileInput"), "") >>

TW_createTweet ==
  << St("find", "tweetBox", Always, "css"),
     St("find", "composeBtn", IfNull("tweetBox"), "css"),
     St("click", "composeBtn", IfNull("tweetBox") \cup IfFound("composeBtn"), ""),
     St("find", "tweetBox", IfNull("tweetBox") \cup IfFound("composeBtn"), "css"),
     St("navFixed", "", IfNull("tweetBox"), ""),
     St("find", "tweetBox", IfNull("tweetBox"), "css"),
     St("require", "tweetBox", Always, "Tweet mezo nem talalhato") >>
  \o TW_uploadImages \o
  << St("click", "tweetBox", IfText, ""),
     St("sanitize", "", IfText, ""),
     St("type", "tweetBox", IfText, ""),
     St("find", "tweetBtn", Always, "css"),
     St("require", "tweetBtn", Always, "Tweet gomb nem talalhato"),
     St("click", "tweetBtn", Always, "") >>

TW_performLike ==
  << St("navTarget", "", Always, "always"),
     St("find", "likeBtn", Always, "state"),
     St("require", "likeBtn", Always, "Like gomb nem talalhato"),
     St("returnIf", "likeBtn", Always, "done"),
     St("click", "likeBtn", Always, "") >>

TW_performRetweet ==
  << St("navTarget", "", Always, "always"),
     St("find", "retweetBtn", Always, "state"),
     St("require", "retweetBtn", Always, "Retweet gomb nem talalhato"),
     St("returnIf", "retweetBtn", Always, "done"),
     St("click", "retweetBtn", Always, ""),
     St("find", "repostOption", Always, "css"),
     St("click", "repostOption", IfFound("repostOption"), "") >>

TW_writeReply ==
  << St("navTarget", "", Always, "always"),
     St("find", "replyBox", Always, "css"),
     St("require", "replyBox", Always, "Reply mezo nem talalhato"),
     St("click", "replyBox", Always, "") >>
  \o TW_uploadImages \o
  << St("sanitize", "", IfText, ""),
     St("type", "replyBox", IfText, ""),
     St("find", "replyBtn", Always, "css"),
     St("click", "replyBtn", IfFound("replyBtn"), "") >>

\* uploadImages of the Facebook script, for one image
FB_uploadImages ==
  << St("find", "photoBtn", IfMedia, "css"),
     St("click", "photoBtn", IfMedia \cup IfFound("photoBtn"), ""),
     St("fetch", "file", IfMedia, "caught"),
     St("query", "fileInput", IfMedia \cup IfFound("file"), "css"),
     St("upload", "fileInput", IfMedia \cup IfFound("fileInput"), ""),
     St("find", "dropEditor", IfMedia \cup IfNull("fileInput"), "css"),
     St("drop", "dropEditor", IfMedia \cup IfFound("dropEditor"), "") >>

FB_createPost ==
  << St("find", "trigger", Always, "css"),
     St("require", "trigger", Always, "Poszt trigger nem talalhato"),
     St("click", "trigger", Always, ""),
     St("find", "editor", Always, "css"),
     St("require", "editor", Always, "Szerkeszto mezo nem talalhato") >>
  \o FB_uploadImages \o
  << St("sanitize", "", IfText, ""),
     St("click", "editor", IfText, ""),
     St("type", "editor", IfText, ""),
     St("find", "postBtn", Always, "css"),
     St("require", "postBtn", Always, "Kozzetetel gomb nem talalhato"),
     St("click", "postBtn", Always, "") >>

FB_createStory ==
  << St("find", "storyBtn", Always, "css"),
     St("navFixed", "", IfNull("storyBtn"), ""),
     St("click", "storyBtn", IfFound("storyBtn"), ""),
     St("fetch", "file", IfMedia, "thrown"),
     St("query", "fileInput", IfMedia, "css"),
     St("upload", "fileInput", IfMedia \cup IfFound("fileInput"), ""),
     St("find", "textBtn", IfText, "css"),
     St("click", "textBtn", IfText \cup IfFound("textBtn"), ""),
     St("find", "textInput", IfText \cup IfFound("textBtn"), "css"),
     St("sanitize", "", IfText \cup IfFound("textInput"), ""),
     St("type", "textInput", IfText \cup IfFound("textInput"), ""),
     St("find", "shareBtn", Always, "css"),
     St("require", "shareBtn", Always, "Story megosztas gomb nem talalhato"),
     St("click", "shareBtn", Always, "") >>

FB_performLike ==
  << St("navTarget", "", Always, "unlessIncludes"),
     St("find", "likeBtn", Always, "state"),
     St("require", "likeBtn", Always, "Like gomb nem talalhato"),
     St("returnIf", "likeBtn", Always, "done"),
     St("click", "likeBtn", Always, "") >>

FB_writeComment ==
  << St("navTarget", "", Always, "unlessIncludes"),
     St("find", "commentBox", Always, "css"),
     St("require", "commentBox", Always, "Komment mezo nem talalhato"),
     St("click", "commentBox", Always, ""),
     St("sanitize", "", Always, ""),
     St("type", "commentBox", Always, ""),
     St("key", "commentBox", Always, "") >>

\* every strategy of the 'share now' lookup is an 'aria:' or 'text:' string
FB_performShare ==
  << St("navTarget", "", Always, "always"),
     St("find", "shareBtn", Always, "css"),
     St("require", "shareBtn", Always, "Megosztas gomb nem talalhato"),
     St("click", "shareBtn", Always, ""),
     St("find", "shareNowBtn", Always, "none"),
     St("click", "shareNowBtn", IfFound("shareNowBtn"), "") >>

\* SELECTORS.nextButton and SELECTORS.shareButton hold no string that
\* querySelector accepts
IG_createPost ==
  << St("requireMedia", "", Always, "Instagram poszthoz kep szukseges"),
     St("find", "newPostBtn", Always, "css"),
     St("click", "newPostBtn", IfFound("newPostBtn"), ""),
     St("navFixed", "", IfNull("newPostBtn"), ""),
     St("fetch", "file", Always, "thrown"),
     St("query", "fileInput", Always, "css"),
     St("require", "fileInput", Always, "File input nem talalhato"),
     St("upload", "fileInput", Always, ""),
     St("find", "nextBtn", Always, "none"),
     St("click", "nextBtn", IfFound("nextBtn"), ""),
     St("find", "nextBtn", Always, "none"),
     St("click", "nextBtn", IfFound("nextBtn"), ""),
     St("find", "captionInput", IfText, "css"),
     St("click", "captionInput", IfText \cup IfFound("captionInput"), ""),
     St("sanitize", "", IfText \cup IfFound("captionInput"), ""),
     St("set", "captionInput", IfText \cup IfFound("captionInput"), ""),
     St("find", "shareBtn", Always, "none"),
     St("require", "shareBtn", Always, "Megosztas gomb nem talalhato"),
     St("click", "shareBtn", Always, "") >>

IG_createStory ==
  << St("requireMedia", "", Always, "Instagram story-hoz kep szukseges"),
     St("find", "storyBtn", Always, "css"),
     St("click", "storyBtn", IfFound("storyBtn"), ""),
     St("find", "createBtn", IfNull("storyBtn"), "css"),
     St("click", "createBtn", IfFound("createBtn"), ""),
     St("find", "storyOption", IfFound("createBtn"), "none"),
     St("click", "storyOption", IfFound("storyOption"), ""),
     St("fetch", "file", Always, "thrown"),
     St("query", "fileInput", Always, "css"),
     St("upload", "fileInput", IfFound("fileInput"), ""),
     St("find", "textBtn", IfText, "css"),
     St("click", "textBtn", IfText \cup IfFound("textBtn"), ""),
     St("find", "textInput", IfText \cup IfFound("textBtn"), "css"),
     St("sanitize", "", IfText \cup IfFound("textInput"), ""),
     St("type", "textInput", IfText \cup IfFound("textInput"), ""),
     St("find", "shareBtn", Always, "none"),
     St("click", "shareBtn", IfFound("shareBtn"), ""),
     St("find", "yourStoryBtn", IfNull("shareBtn"), "css"),
     St("click", "yourStoryBtn", IfFound("yourStoryBtn"), "") >>

IG_performLike ==
  << St("navTarget", "", Always, "always"),
     St("find", "unlikeBtn", Always, "css"),
     St("returnIf", "unlikeBtn", Always, "found"),
     St("find", "likeBtn", Always, "css"),
     St("require", "likeBtn", Always, "Like gomb nem talalhato"),
     St("click", "likeBtn", Always, "") >>

\* SELECTORS.postCommentButton holds no string that querySelector accepts
IG_writeComment ==
  << St("navTarget", "", Always, "always"),
     St("find", "commentBox", Always, "css"),
     St("require", "commentBox", Always, "Komment mezo nem talalhato"),
     St("click", "commentBox", Always, ""),
     St("sanitize", "", Always, ""),
     St("set", "commentBox", Always, ""),
     St("find", "postBtn", Always, "none"),
     St("click", "postBtn", IfFound("postBtn"), ""),
     St("key", "commentBox", IfNull("postBtn"), "") >>

\* the local variables of the routines
Slots ==
  { "tweetBox", "composeBtn", "tweetBtn", "file", "fileInput", "likeBtn",
    "retweetBtn", "repostOption", "replyBox", "replyBtn", "photoBtn",
    "dropEditor", "trigger", "editor", "postBtn", "storyBtn", "textBtn",
    "textInput", "shareBtn", "shareNowBtn", "commentBox", "newPostBtn",
    "nextBtn", "captionInput", "createBtn", "storyOption", "yourStoryBtn",
    "unlikeBtn" }

\* the switch of handleTask on task.task_type.toLowerCase(): the routine
\* it calls, "default" for the default branch
handleTaskStoryAsPost(platform, task_type) ==
  LET t == toLowerCase(task_type) IN
  IF platform = "facebook" THEN
    CASE t = <<"p","o","s","t">> -> "createPost"
      [] t = <<"s","t","o","r","y">> -> "createStory"
      [] t = <<"l","i","k","e">> -> "performLike"
      [] t = <<"c","o","m","m","e","n","t">> -> "writeComment"
      [] t = <<"s","h","a","r","e">> -> "performShare"
      [] OTHER -> "default"
  ELSE IF platform = "instagram" THEN
    CASE t = <<"p","o","s","t">> -> "createPost"
      [] t = <<"s","t","o","r","y">> -> "createStory"
      [] t = <<"l","i","k","e">> -> "performLike"
      [] t = <<"c","o","m","m","e","n","t">> -> "writeComment"
      [] OTHER -> "default"
  ELSE
    CASE t \in {<<"p","o","s","t">>, <<"s","t","o","r","y">>} -> "createTweet"
      [] t = <<"l","i","k","e">> -> "performLike"
      [] t \in {<<"s","h","a","r","e">>, <<"r","e","t","w","e","e","t">>}
           -> "performRetweet"
      [] t \in {<<"c","o","m","m","e","n","t">>, <<"r","e","p","l","y">>}
           -> "writeReply"
      [] OTHER -> "default"
handleTask(platform, task_type) ==
  LET t == toLowerCase(task_type) IN
  IF platform = "facebook" THEN
    CASE t = <<"p","o","s","t">> -> "createPost"
      [] t = <<"s","t","o","r","y">> -> "createStory"
      [] t = <<"l","i","k","e">> -> "performLike"
      [] t = <<"c","o","m","m","e","n","t">> -> "writeComment"
      [] t = <<"s","h","a","r","e">> -> "performShare"
      [] OTHER -> "default"
  ELSE IF platform = "instagram" THEN
    CASE t = <<"p","o","s","t">> -> "createPost"
      [] t = <<"s","t","o","r","y">> -> "createStory"
      [] t = <<"l","i","k","e">> -> "performLike"
      [] t = <<"c","o","m","m","e","n","t">> -> "writeComment"
      [] OTHER -> "default"
  ELSE
    CASE t = <<"p","o","s","t">> -> "createTweet"
      [] t = <<"l","i","k","e">> -> "performLike"
      [] t \in {<<"s","h","a","r","e">>, <<"r","e","t","w","e","e","t">>}
           -> "performRetweet"
      [] t \in {<<"c","o","m","m","e","n","t">>, <<"r","e","p","l","y">>}
           -> "writeReply"
      [] OTHER -> "default"

\* the statements of the routine that handleTask calls
Routine(platform, name) ==
  IF platform = "facebook" THEN
    CASE name = "createPost" -> FB_createPost
      [] name = "createStory" -> FB_createStory
      [] name = "performLike" -> FB_performLike
      [] name = "writeComment" -> FB_writeComment
      [] name = "performShare" -> FB_performShare
      [] OTHER -> <<>>
  ELSE IF platform = "instagram" THEN
    CASE name = "createPost" -> IG_createPost
      [] name = "createStory" -> IG_createStory
      [] name = "performLike" -> IG_performLike
      [] name = "writeComment" -> IG_writeComment
      [] OTHER -> <<>>
  ELSE
    CASE name = "createTweet" -> TW_createTweet
      [] name = "performLike" -> TW_performLike
      [] name = "performRetweet" -> TW_performRetweet
      [] name = "writeReply" -> TW_writeReply
      [] OTHER -> <<>>

\* { success: false, error: `Ismeretlen task tipus: ${task.task_type}` }
UnknownType(task_type) ==
  [success |-> FALSE, error |-> Msg("Ismeretlen task tipus: ", task_type)]

\* the task types that validateTask accepts, in the spellings of the server
DispatchTypes ==
  ALLOWED_TYPES \cup { <<"S","t","o","r","y">>, <<"S","H","A","R","E">> }
\* content.text as fetchTask builds it (data.task.content || ''): a non-empty
\* string, the empty string, or a value of the server that is no string
ContentTexts == {"text", "empty", "number"}

OtherThanDp == <<swVars, val, fe, ht, lk, hc, sn>>

InitDispatch ==
  /\ SwIdle
  /\ hc = NotCalled
  /\ sn = NotCalled
  /\ val = NotCalled
  /\ fe = NotCalled
  /\ ht = NotCalled
  /\ lk = NotCalled
  /\ \E platform \in Platforms, task_type \in DispatchTypes,
        text \in ContentTexts, media \in BOOLEAN,
        targetUrl \in BOOLEAN, loc \in Locations :
       /\ ~targetUrl => loc = "different"
       /\ dp = [ pc |-> "start", platform |-> platform,
                 task_type |-> task_type, text |-> text, media |-> media,
                 targetUrl |-> targetUrl, loc |-> loc,
                 routine |-> "", ip |-> 1,
                 slots |-> [s \in Slots |-> "unset"],
                 assignedAt |-> "none", settled |-> FALSE,
                 navs |-> 0, finds |-> 0, clicks |-> 0, ret |-> Success ]

\* the statement the routine is at
Program == Routine(dp.platform, dp.routine)
Running == dp.pc = "run" /\ dp.ip <= Len(Program)
Cur == Program[dp.ip]
Holds(atom) ==
  IF atom[1] = "text" THEN dp.text # "empty"
  ELSE IF atom[1] = "media" THEN dp.media
  ELSE dp.slots[atom[1]] = atom[2]
CondHolds == \A atom \in Cur.when : Holds(atom)
StatementIs(ops) == Running /\ CondHolds /\ Cur.op \in ops
Advance(d) == [d EXCEPT !.ip = d.ip + 1]
\* catch (error) { return { success: false, error: error.message } }
Caught(text) == [dp EXCEPT !.pc = "returned", !.ret = Failure(text)]

\* handleTask(task): the switch
HandleTask ==
  /\ dp.pc = "start"
  /\ LET r == handleTask(dp.platform, dp.task_type) IN
     dp' = IF r = "default"
           THEN [dp EXCEPT !.pc = "returned", !.ret = UnknownType(dp.task_type)]
           ELSE [dp EXCEPT !.pc = "run", !.routine = r]
  /\ UNCHANGED OtherThanDp

\* an if whose condition is false: its body is skipped
SkipStatement ==
  /\ Running /\ ~CondHolds
  /\ dp' = Advance(dp)
  /\ UNCHANGED OtherThanDp

\* the test before window.location.href = targetUrl
Navigates(test, targetUrl, loc) ==
  IF test = "unlessIncludes"
  THEN targetUrl /\ loc = "different"    \* !href.includes(targetUrl)
  ELSE targetUrl

\* if (targetUrl ...) { window.location.href = targetUrl; await delay }
NavigateToTarget ==
  /\ StatementIs({"navTarget"})
  /\ dp' = IF Navigates(Cur.arg, dp.targetUrl, dp.loc)
           THEN [dp EXCEPT !.pc = "settle", !.assignedAt = dp.loc,
                           !.navs = dp.navs + 1]
           ELSE Advance(dp)
  /\ UNCHANGED OtherThanDp

\* window.location.href = '<the page of the composer>'; await delay
NavigateToComposer ==
  /\ StatementIs({"navFixed"})
  /\ dp' = [dp EXCEPT !.pc = "settle", !.navs = dp.navs + 1]
  /\ UNCHANGED OtherThanDp

\* await Utils.delay(...) after an assignment: the navigation unloads the
\* document and the content script with it, or it has not committed when
\* the delay ends (or only the fragment changed) and the routine goes on
Settle ==
  /\ dp.pc = "settle"
  /\ \/ dp' = [dp EXCEPT !.pc = "destroyed"]
     \/ dp' = [Advance(dp) EXCEPT !.pc = "run", !.settled = TRUE]
  /\ UNCHANGED OtherThanDp

\* what a lookup can return: nothing when querySelector rejects every
\* strategy; the marked state of a like or repost button
Results(arg) ==
  IF arg = "none" THEN {"null"}
  ELSE IF arg = "state" THEN {"null", "found", "done"}
  ELSE {"null", "found"}

\* x = await Utils.findElement(...), x = document.querySelector(...)
Resolve ==
  /\ StatementIs({"find", "query"})
  /\ \E r \in Results(Cur.arg) :
       dp' = [Advance(dp) EXCEPT !.slots[Cur.slot] = r,
                              !.finds = dp.finds + (IF Cur.op = "find" THEN 1 ELSE 0)]
  /\ UNCHANGED OtherThanDp

\* file = await Utils.fetchImageAsFile(...): it throws when the download
\* fails; uploadImages catches that inside its loop
FetchImage ==
  /\ StatementIs({"fetch"})
  /\ \/ dp' = [Advance(dp) EXCEPT !.slots[Cur.slot] = "found"]
     \/ dp' = IF Cur.arg = "caught"
              THEN [Advance(dp) EXCEPT !.slots[Cur.slot] = "null"]
              ELSE Caught("Kep letoltes sikertelen")
  /\ UNCHANGED OtherThanDp

\* if (!x) throw new Error(...); if (no media) throw new Error(...)
Require ==
  /\ StatementIs({"require", "requireMedia"})
  /\ LET missing == IF Cur.op = "requireMedia" THEN ~dp.media
                    ELSE dp.slots[Cur.slot] = "null" IN
     dp' = IF missing THEN Caught(Cur.arg) ELSE Advance(dp)
  /\ UNCHANGED OtherThanDp

\* if (<the button shows the action was done>) return { success: true }
ReturnIfDone ==
  /\ StatementIs({"returnIf"})
  /\ dp' = IF dp.slots[Cur.slot] = Cur.arg
           THEN [dp EXCEPT !.pc = "returned", !.ret = Success]
           ELSE Advance(dp)
  /\ UNCHANGED OtherThanDp

\* Utils.sanitizeText(content.text): text.replace(...) of a value that is
\* no string throws a TypeError
Sanitize ==
  /\ StatementIs({"sanitize"})
  /\ dp' = IF dp.text = "number"
           THEN Caught("text.replace is not a function")
           ELSE Advance(dp)
  /\ UNCHANGED OtherThanDp

\* await Utils.humanType(x, text): typeChar throws on a textarea
TypeInto ==
  /\ StatementIs({"type"})
  /\ \E kind \in ElementKinds :
       dp' = IF typeCharThrows(kind) /\ dp.text = "text"
             THEN Caught("Illegal invocation")
             ELSE Advance(dp)
  /\ UNCHANGED OtherThanDp

\* humanClick, a direct value assignment, the Enter key, a file list
\* assignment or a simulated drop on an element that was found
Interact ==
  /\ StatementIs({"click", "set", "key", "upload", "drop"})
  /\ dp' = [Advance(dp) EXCEPT
              !.clicks = dp.clicks + (IF Cur.op = "click" THEN 1 ELSE 0)]
  /\ UNCHANGED OtherThanDp

\* return { success: true } at the end of the try block
ReturnSuccess ==
  /\ dp.pc = "run" /\ dp.ip > Len(Program)
  /\ dp' = [dp EXCEPT !.pc = "returned", !.ret = Success]
  /\ UNCHANGED OtherThanDp

NextDispatch ==
  \/ HandleTask \/ SkipStatement \/ NavigateToTarget \/ NavigateToComposer
  \/ Settle \/ Resolve \/ FetchImage \/ Require \/ ReturnIfDone \/ Sanitize
  \/ TypeInto \/ Interact \/ ReturnSuccess

SpecDispatch == InitDispatch /\ [][NextDispatch]_vars

\* handleTask has ended: it returned, or its document was unloaded
DispatchEnded == dp.pc \in {"returned", "destroyed"}

\* the elements an action cannot do without: the button that submits,
\* shares or replies, the option that confirms, the text field that is
\* typed into and the file input that takes the image
NeededSlots ==
  { "tweetBtn", "postBtn", "shareBtn", "replyBtn", "repostOption",
    "shareNowBtn", "tweetBox", "replyBox", "editor", "commentBox",
    "captionInput", "textInput", "fileInput" }
\* the routine used another way in after the lookup found nothing
Replaced(s) ==
  \/ s = "shareBtn" /\ dp.slots["yourStoryBtn"] = "found"
  \/ s = "postBtn" /\ dp.routine = "writeComment"
  \/ s = "fileInput" /\ dp.slots["dropEditor"] = "found"
NeededMissing ==
  \E s \in NeededSlots : dp.slots[s] = "null" /\ ~Replaced(s)

\* C21: an action in which the lookup of an element it needs (submit, share
\* or reply button, confirm option, text field, file input) found nothing
\* returns {success: false, error: message}; none returns success=true.
C21_NotFoundFails ==
  (dp.pc = "returned" /\ NeededMissing)
    => /\ ~dp.ret.success
       /\ dp.ret.error # NoErr

\* the part of it that holds: a lookup followed by 'if (!x) throw' that
\* found nothing is never followed by success
C21_GuardedLookupsFail ==
  (dp.pc = "returned" /\ dp.ret.success)
    => \A i \in 1..Len(Program) :
         Program[i].op = "require" => dp.slots[Program[i].slot] # "null"

\* an ActionOutcome: success, or no success and the message of an error
ActionOutcome(r) == r.success \/ r.error # NoErr

\* C22: for every validated task handleTask of each dispatcher completes
\* with an ActionOutcome (success, or success=false and an error string); no
\* exception of a lookup, a download or an interaction escapes a routine.
C22_AlwaysAnOutcome ==
  DispatchEnded => dp.pc = "returned" /\ ActionOutcome(dp.ret)

\* the part of it that holds: a routine that assigned no location returns
\* an outcome, and what is thrown inside a routine is returned as its error
C22_OutcomeUnlessNavigated ==
  /\ (DispatchEnded /\ dp.navs = 0) => dp.pc = "returned"
  /\ dp.pc = "returned" => ActionOutcome(dp.ret)
  /\ dp.pc = "destroyed" => dp.navs > 0

\* C23: an action that takes a targetUrl (like, comment/reply, share/retweet)
\* assigns the page location only when the current location does not already
\* match targetUrl, and after an assignment a settle delay elapses before the
\* first findElement call.
C23_NavigateOnlyWhenElsewhere ==
  /\ dp.assignedAt # "none" => dp.assignedAt # "same"
  /\ (dp.assignedAt # "none" /\ dp.finds > 0) => dp.settled

\* the parts of it that hold: the Facebook like and comment actions leave a
\* matching location alone, and every action waits after an assignment
C23_FacebookTestsLocation ==
  (dp.platform = "facebook" /\ dp.routine \in {"performLike", "writeComment"})
    => dp.assignedAt \in {"none", "different"}
C23_SettleBeforeLookup ==
  (dp.assignedAt # "none" /\ dp.finds > 0) => dp.settled

\* the task types a platform's handleTask has no case for
Unsupported(platform, task_type) ==
  \/ platform = "instagram" /\ toLowerCase(task_type) = <<"s","h","a","r","e">>
  \/ platform = "twitter" /\ toLowerCase(task_type) = <<"s","t","o","r","y">>

\* C27: a dispatcher runs only the task types it implements: for Instagram
\* 'share' and Twitter 'story' handleTask returns success=false with an error
\* that names the type and makes no lookup, click or navigation; Twitter
\* 'share' runs the repost routine and Twitter 'comment' the reply routine.
C27_SupportedSubset ==
  /\ (dp.pc # "start" /\ Unsupported(dp.platform, dp.task_type))
       => /\ dp.pc = "returned"
          /\ dp.ret = UnknownType(dp.task_type)
          /\ dp.routine = ""
          /\ dp.finds = 0 /\ dp.clicks = 0 /\ dp.navs = 0
  /\ (dp.pc # "start" /\ dp.platform = "twitter")
       => /\ toLowerCase(dp.task_type) = <<"s","h","a","r","e">>
               => dp.routine = "performRetweet"
          /\ toLowerCase(dp.task_type) = <<"c","o","m","m","e","n","t">>
               => dp.routine = "writeReply"

\* handleTask of the Twitter script answered a 'Story' task
C27_Witness ==
  /\ dp.platform = "twitter"
  /\ dp.task_type = <<"S","t","o","r","y">>
  /\ dp.pc = "returned"
  /\ ~dp.ret.success
  /\ dp.ret.error.arg = <<"S","t","o","r","y">>

(***************************************************************************)
(* The orchestrator and the server (specification Spec).                   *)
(***************************************************************************)
\* a request of tick p (or of a message handler for its task) is sent
RequestSent(p) == Len(log'[p].headers) > Len(log[p].headers)

\* C24: no request (register-agent, get-task, report-task-status) is sent
\* while the persisted API key is empty, the missing key being detected
\* before any network call; every request sent carries the client version
\* and the API key header.
C24_NoRequestWithoutKey ==
  [][ \A p \in TickIds :
        RequestSent(p) =>
          /\ store.apiKey # ""
          /\ \A i \in 1..Len(log'[p].headers) :
               /\ log'[p].headers[i].version = "CONFIG.VERSION"
               /\ log'[p].headers[i].apiKey # "" ]_vars

\* the part of it that holds: apiCall sends nothing when the state it read
\* has no key, and every request carries the version and the key it read
C24_RequestsCarryHeaders ==
  \A p \in TickIds : \A i \in 1..Len(log[p].headers) :
    /\ log[p].headers[i].version = "CONFIG.VERSION"
    /\ log[p].headers[i].apiKey # ""

\* tick p leaves the catch block of fetchTask: its setState is written and
\* fetchTask returns null
PollFailureHandled(p) ==
  At(p, "tick", "fe_set_write") /\ procs'[p].pc = "done"

\* C25: when the get-task call fails fetchTask does not raise: it records
\* the error message in stats.lastError, leaves lastPoll and the counters as
\* they are, returns no task, so that the tick executes and reports nothing,
\* and the alarm stays armed for the next tick.
C25_PollFailureRecorded ==
  [][ \A p \in TickIds :
        PollFailureHandled(p) =>
          /\ store'.stats.lastError = procs[p].err
          /\ store'.lastPoll = store.lastPoll
          /\ store'.stats.tasksCompleted = store.stats.tasksCompleted
          /\ store'.stats.tasksFailed = store.stats.tasksFailed
          /\ procs'[p].task = NoTaskPayload
          /\ log'[p].sent = 0 /\ log'[p].reports = <<>>
          /\ alarm' = alarm ]_vars

\* the part of it that holds: with no write of another handler between the
\* reads and the write of the catch block
C25_HoldsWithoutInterference ==
  [][ \A p \in TickIds :
        PollFailureHandled(p) =>
          /\ store'.stats.lastError = procs[p].err
          /\ procs'[p].task = NoTaskPayload
          /\ log'[p].sent = 0 /\ log'[p].reports = <<>>
          /\ alarm' = alarm
          /\ (procs[p].cur = store /\ procs[p].st = store.stats) =>
               /\ store'.lastPoll = store.lastPoll
               /\ store'.stats.tasksCompleted = store.stats.tasksCompleted
               /\ store'.stats.tasksFailed = store.stats.tasksFailed ]_vars

\* C26: there is no cancellation in mid-execution: when STOP_AGENT is handled
\* after a tick sent EXECUTE_TASK and before the dispatcher replied, the task
\* runs to its outcome, the outcome is reported to the server and an
\* acknowledged report is counted in stats.
C26_NoCancellation ==
  \A p \in TickIds :
    log[p].stopped =>
      /\ IsTick(p) /\ log[p].sent = 1
      /\ procs[p].pc # "await_reply" =>
           /\ Answered(p)
           /\ log[p].reply \in {"success", "failure", "thrown"}
      /\ Finished(p) =>
           /\ Len(OwnReports(p)) >= 1
           /\ OwnReports(p)[1].status =
                 (IF log[p].reply = "success" THEN "completed" ELSE "failed")
           /\ log[p].counted = log[p].acks

\* a tick whose task was being executed when STOP_AGENT was handled ended
\* after it reported the task as completed and raised tasksCompleted
C26_Witness ==
  \E p \in TickIds :
    /\ log[p].stopped /\ Finished(p)
    /\ ~store.isRunning /\ ~alarm
    /\ log[p].reply = "success"
    /\ OwnReports(p)[1].sent /\ OwnReports(p)[1].status = "completed"
    /\ log[p].acks = 1 /\ log[p].counted = 1
    /\ store.stats.tasksCompleted = 1

\* C28: every get-task request carries a non-empty agentId: a tick that finds
\* no agentId registers first and sends get-task only after the registration
\* succeeded and stored the id; a tick makes at most one get-task request and
\* takes at most one task from the response.
C28_PollCarriesAgentId ==
  \A p \in TickIds :
    /\ \A i \in 1..Len(log[p].getTaskReqs) : log[p].getTaskReqs[i] # 0
    /\ log[p].regFailed => log[p].getTaskReqs = <<>>
    /\ Len(log[p].getTaskReqs) <= 1
    /\ Count(log[p].trace, "response") <= 1

\* the part of it that holds: registration comes first and a failed one ends
\* the tick, one get-task request per tick, one task per response
C28_OnePollAfterRegistration ==
  \A p \in TickIds :
    /\ log[p].regFailed => log[p].getTaskReqs = <<>>
    /\ Len(log[p].getTaskReqs) <= 1
    /\ Count(log[p].trace, "response") <= 1
    /\ (IsTick(p) /\ procs[p].pc \in {"reg_read", "reg_api", "reg_send",
                                         "reg_fetch", "reg_set_read", "reg_set_write"})
         => log[p].getTaskReqs = <<>>

\* the task of tick p passed validateTask
Validated(p) ==
  /\ HasTask(p) /\ Count(log[p].trace, "validate") = 1
  /\ ~validateTaskThrows(procs[p].task)
  /\ validateTask(procs[p].task).valid
\* what executeTask does about tabs for a validated task
TabUse(p) ==
  /\ log[p].queried = "open" => log[p].created = 0
  /\ log[p].created <= 1 /\ log[p].sent <= 1
  /\ log[p].created = 1 => log[p].queried = "absent"
  /\ procs[p].pc \in {"tab_create", "wait_load"} => log[p].sent = 0
  /\ log[p].sent = 1 =>
       /\ TaskPlatform(procs[p].task) \in tabs
       /\ log[p].queried = "absent" => log[p].created = 1

StatusOwed(p) ==
  IF Rejects(p) THEN "rejected"
  ELSE IF log[p].reply = "success" THEN "completed" ELSE "failed"
\* setState({stats, lastTask}) of reportTaskStatus is written by handler p
StatsWritten(p) ==
  procs[p].pc = "rp_set_write" /\ procs'[p].pc # "rp_set_write"

\* every report a tick made has the status owed
StatusAsOwed ==
  \A p \in TickIds : \A i \in 1..Len(OwnReports(p)) :
    OwnReports(p)[i].status = StatusOwed(p)
\* the first report a tick made has the status owed
FirstStatusAsOwed ==
  \A p \in TickIds :
    Len(OwnReports(p)) >= 1 => OwnReports(p)[1].status = StatusOwed(p)

\* C30: the status reported for a task is 'rejected' exactly when validation
\* failed, 'completed' exactly when the dispatcher replied success=true and
\* 'failed' otherwise; an acknowledged 'completed' report raises
\* tasksCompleted by exactly 1, an acknowledged 'failed' report raises
\* tasksFailed by exactly 1 and sets lastError to the message, a 'rejected'
\* report changes neither counter nor lastError.
C30_StatusAndStats ==
  [][ /\ StatusAsOwed'
      /\ \A p \in ProcIds :
           StatsWritten(p) =>
             store'.stats = NewStats(store.stats, procs[p].status, procs[p].err) ]_vars

\* the part of it that holds: the first report of a tick has the status owed,
\* and the stats written are the stats reportTaskStatus read, changed by the
\* status of the report
C30_FirstReportAndOwnRead ==
  [][ /\ FirstStatusAsOwed'
      /\ \A p \in ProcIds :
           StatsWritten(p) =>
             store'.stats = NewStats(procs[p].st, procs[p].status, procs[p].err) ]_vars

(***************************************************************************)
(* humanClick(element) called on its own.  The page gives the rectangle    *)
(* of the element when it is read, after the scroll.                       *)
(***************************************************************************)
\* a humanClick that dispatches a single synthetic click
eventsLoneClick == <<"click">>
\* const events = ['mouseenter', 'mouseover', 'mousedown', 'mouseup', 'click']
events == <<"mouseenter", "mouseover", "mousedown", "mouseup", "click">>

\* element.getBoundingClientRect(): left, top, width, height
Rects ==
  [left : {0, 100}, top : {0, 50}, width : {20}, height : {10}]
\* (Math.random() - 0.5) * 10, the extremes and the middle
Jitters == {-5, 0, 4}

\* rect.left + rect.width / 2 + (Math.random() - 0.5) * 10, and so for y
PointX(rect, jitter) == rect.left + rect.width \div 2 + jitter
PointY(rect, jitter) == rect.top + rect.height \div 2 + jitter

\* new MouseEvent(eventType, {bubbles, cancelable, view, clientX, clientY})
MouseEvent(eventType, x, y) == [type |-> eventType, clientX |-> x, clientY |-> y]

OtherThanHc == <<swVars, val, fe, ht, lk, dp, sn>>

InitClick ==
  /\ SwIdle
  /\ val = NotCalled
  /\ fe = NotCalled
  /\ ht = NotCalled
  /\ lk = NotCalled
  /\ dp = NotCalled
  /\ sn = NotCalled
  /\ \E element \in {"null", "element"} :
       hc = [ pc |-> "start", element |-> element, scrolled |-> FALSE,
              x |-> 0, y |-> 0, k |-> 1, dispatched |-> <<>>,
              scrolledAt |-> <<>>, error |-> NoErr ]

\* if (!element) throw new Error(...); element.scrollIntoView(...); the
\* delay of 300 to 600 ms
ClickStart ==
  /\ hc.pc = "start"
  /\ hc' = IF hc.element = "null"
           THEN [hc EXCEPT !.pc = "raised",
                           !.error = Err("Nincs elem a kattintashoz")]
           ELSE [hc EXCEPT !.pc = "point", !.scrolled = TRUE]
  /\ UNCHANGED OtherThanHc

\* const rect = element.getBoundingClientRect(); const x = ...; const y = ...
ClickPoint ==
  /\ hc.pc = "point"
  /\ \E rect \in Rects, jx \in Jitters, jy \in Jitters :
       hc' = [hc EXCEPT !.pc = "dispatch",
                        !.x = PointX(rect, jx), !.y = PointY(rect, jy)]
  /\ UNCHANGED OtherThanHc

\* one turn of for (const eventType of events): element.dispatchEvent(event)
\* and the delay of 10 to 30 ms
ClickDispatch ==
  /\ hc.pc = "dispatch"
  /\ hc.k <= Len(events)
  /\ hc' = [hc EXCEPT !.k = hc.k + 1,
                      !.dispatched = Append(@, MouseEvent(events[hc.k], hc.x, hc.y)),
                      !.scrolledAt = Append(@, hc.scrolled)]
  /\ UNCHANGED OtherThanHc

\* the loop is over: the delay of 100 to 300 ms, and humanClick returns
ClickReturn ==
  /\ hc.pc = "dispatch"
  /\ hc.k > Len(events)
  /\ hc' = [hc EXCEPT !.pc = "returned"]
  /\ UNCHANGED OtherThanHc

NextClick == ClickStart \/ ClickPoint \/ ClickDispatch \/ ClickReturn

SpecClick == InitClick /\ [][NextClick]_vars

\* the types of the events dispatched so far
DispatchedTypes == [i \in 1..Len(hc.dispatched) |-> hc.dispatched[i].type]

\* C31: humanClick on an element dispatches mouseenter, mouseover, mousedown,
\* mouseup, click, once each and in that order, all with the same clientX and
\* clientY, each after the element was scrolled into view; a click is never
\* dispatched without the four events before it; with no element it raises
\* an error and dispatches nothing.
C31_FivePointerEvents ==
  LET five == <<"mouseenter", "mouseover", "mousedown", "mouseup", "click">> IN
  /\ Len(hc.dispatched) <= 5
  /\ \A i \in 1..Len(hc.dispatched) :
       /\ DispatchedTypes[i] = five[i]
       /\ hc.dispatched[i].clientX = hc.dispatched[1].clientX
       /\ hc.dispatched[i].clientY = hc.dispatched[1].clientY
       /\ hc.scrolledAt[i]
  /\ hc.pc = "returned" => DispatchedTypes = five
  /\ (hc.element = "null" /\ hc.pc # "start")
       => /\ hc.pc = "raised" /\ hc.error # NoErr
          /\ hc.dispatched = <<>> /\ ~hc.scrolled
  /\ hc.pc = "raised" => hc.element = "null"

\* humanClick returned after the five events at one point
C31_Witness ==
  /\ hc.pc = "returned"
  /\ Len(hc.dispatched) = 5
  /\ hc.dispatched[5] = MouseEvent("click", hc.x, hc.y)

(***************************************************************************)
(* humanType: where the simulated mistakes are made (specification         *)
(* SpecType).                                                              *)
(***************************************************************************)
\* the characters of the text still to be typed when the loop is at
\* position i (text[i] included)
Remaining(i) == Len(ht.text) - i + 1

\* C32: a wrong character is inserted before position i only when more than
\* 10 characters of the text remain to be typed at i: none is inserted in the
\* last 10 characters of a text, and none in a text of at most 10 characters.
C32_MistakeOnlyWhenManyRemain ==
  \A i \in ht.mistakeAt : Remaining(i) > 10

\* no wrong character is inserted into a text of at most 10 characters
C32_NoMistakeInShortText ==
  ht.mistakeAt # {} => Len(ht.text) > 10

(***************************************************************************)
(* sanitizeText(text) called on its own: three String.prototype.replace    *)
(* calls with global, case-insensitive patterns, one after the other, and  *)
(* trim.  A replace scans the string once from the left; what it removes   *)
(* is not scanned again.                                                   *)
(***************************************************************************)
\* the longest generated text
MaxTextLen == 8

MinOf(S) == CHOOSE x \in S : \A y \in S : x <= y
MaxOf(S) == CHOOSE x \in S : \A y \in S : y <= x

\* the last index of the longest run of \w characters that starts at i
\* (i - 1 when s[i] is none)
WordRunEnd(s, i) ==
  MaxOf({j \in (i - 1)..Len(s) : \A k \in i..j : IsWordChar(s[k])})
\* the same for \s
SpaceRunEnd(s, i) ==
  MaxOf({j \in (i - 1)..Len(s) : \A k \in i..j : IsSpaceChar(s[k])})

\* The index at which a match of the pattern that starts at i ends, 0 when
\* none starts at i.
\*   script  : /<script[^>]*>.*?<\/script>/gi  ([^>]* stops at the first '>',
\*             the lazy .*? at the first closing tag; '.' matches no newline)
\*   url     : /javascript:/gi
\*   handler : /on\w+\s*=/gi  (\w+ and \s* are greedy; no shorter run of
\*             either lets '=' match)
MatchEnd(pattern, s, i) ==
  IF pattern = "script"
  THEN IF ~MatchAtCI(s, <<"<","s","c","r","i","p","t">>, i) THEN 0
       ELSE LET gts == {g \in (i + 7)..Len(s) : s[g] = ">"} IN
            IF gts = {} THEN 0
            ELSE LET g == MinOf(gts)
                     closes ==
                       {c \in (g + 1)..Len(s) :
                          /\ MatchAtCI(s, <<"<","/","s","c","r","i","p","t",">">>, c)
                          /\ \A k \in (g + 1)..(c - 1) : s[k] # "\n"}
                 IN IF closes = {} THEN 0 ELSE MinOf(closes) + 8
  ELSE IF pattern = "url"
  THEN IF MatchAtCI(s, <<"j","a","v","a","s","c","r","i","p","t",":">>, i)
       THEN i + 10 ELSE 0
  ELSE IF ~MatchAtCI(s, <<"o","n">>, i) THEN 0
       ELSE LET w == WordRunEnd(s, i + 2) IN
            IF w < i + 2 THEN 0
            ELSE LET e == SpaceRunEnd(s, w + 1) + 1 IN
                 IF e <= Len(s) /\ s[e] = "=" THEN e ELSE 0

\* s.replace(pattern, ''), from index i on
RECURSIVE ReplaceFrom(_, _, _)
ReplaceFrom(pattern, s, i) ==
  IF i > Len(s) THEN <<>>
  ELSE IF MatchEnd(pattern, s, i) # 0
       THEN ReplaceFrom(pattern, s, MatchEnd(pattern, s, i) + 1)
       ELSE <<s[i]>> \o ReplaceFrom(pattern, s, i + 1)

\* String.prototype.trim
trim(s) ==
  LET keep == {i \in 1..Len(s) : ~IsSpaceChar(s[i])} IN
  IF keep = {} THEN <<>> ELSE SubSeq(s, MinOf(keep), MaxOf(keep))

\* sanitizeText(text)
sanitizeText(text) ==
  trim(ReplaceFrom("handler",
         ReplaceFrom("url", ReplaceFrom("script", text, 1), 1), 1))

\* the texts sanitizeText is called with: every text over a few characters
\* up to MaxTextLen, and texts with markup, URLs and handlers
SanitizeAlphabet == {"o", "n", "=", " "}
SanitizeTexts ==
  UNION { [1..n -> SanitizeAlphabet] : n \in 0..MaxTextLen }
  \cup
  { <<"h","i">>, <<" ","h","i","\n">>,
    <<"J","a","v","a","S","c","r","i","p","t",":","x">>,
    <<"j","a","v","a","j","a","v","a","s","c","r","i","p","t",":",
      "s","c","r","i","p","t",":","x">>,
    <<"j","a","v","a","o","n","x","=","s","c","r","i","p","t",":">>,
    <<"j","a","v","<","s","c","r","i","p","t",">","<","/","s","c","r","i","p","t",">",
      "a","s","c","r","i","p","t",":">>,
    <<"a","<","S","c","R","i","P","t"," ","x",">","b","<","/","s","c","r","i","p","t",">","c">>,
    <<"<","s","c","r","i","p","t",">","\n","<","/","s","c","r","i","p","t",">">>,
    <<"<","b"," ","O","N","c","l","i","c","k"," ","\t","=","f",">">>,
    <<"a"," ","=","b">> }

OtherThanSn == <<swVars, val, fe, ht, lk, dp, hc>>

InitSanitize ==
  /\ SwIdle
  /\ val = NotCalled
  /\ fe = NotCalled
  /\ ht = NotCalled
  /\ lk = NotCalled
  /\ dp = NotCalled
  /\ hc = NotCalled
  /\ \E text \in SanitizeTexts : sn = [pc |-> "call", text |-> text]

\* const clean = TrendMasterUtils.sanitizeText(text)
CallSanitizeText ==
  /\ sn.pc = "call"
  /\ sn' = [pc |-> "returned", text |-> sn.text, result |-> sanitizeText(sn.text)]
  /\ UNCHANGED OtherThanSn

NextSanitize == CallSanitizeText

SpecSanitize == InitSanitize /\ [][NextSanitize]_vars

\* validateTask accepts the text (the length and the content tests)
AcceptedText(text) ==
  ~(text # <<>> /\ Len(text) > MAX_CONTENT_LENGTH) /\ ~(text # <<>> /\ dangerous(text))

\* C39: the output of sanitizeText contains no 'javascript:' and no
\* on<word>= pattern, sanitizing the output again changes nothing, and a text
\* that validateTask accepts is returned unchanged apart from the trimming.
C39_SafeIdempotentFilter ==
  sn.pc = "returned" =>
    /\ ~ContainsCI(sn.result, <<"j","a","v","a","s","c","r","i","p","t",":">>)
    /\ ~MatchesOnHandler(sn.result)
    /\ sanitizeText(sn.result) = sn.result
    /\ AcceptedText(sn.text) => sn.result = trim(sn.text)

\* the part on the texts validateTask accepts: only the trimming changes them
C39_AcceptedOnlyTrimmed ==
  (sn.pc = "returned" /\ AcceptedText(sn.text)) => sn.result = trim(sn.text)

(***************************************************************************)
(* findElement: what a pass returns (specification SpecFind).              *)
(***************************************************************************)
\* the element that the lookup of strategy k yielded in the last pass is
\* rendered with no display none, no visibility hidden, no opacity 0 and a
\* width and a height above 0
WasVisible(k) ==
  /\ fe.passDom[k] # "none"
  /\ Rendering(fe.passDom[k]).display # "none"
  /\ Rendering(fe.passDom[k]).visibility # "hidden"
  /\ Rendering(fe.passDom[k]).opacity # "0"
  /\ Rendering(fe.passDom[k]).width > 0
  /\ Rendering(fe.passDom[k]).height > 0

\* the strategies whose lookup raises no error in a pass
Sound(k) == ~querySelectorThrows(fe.sels[k])

\* C38: an element that findElement returns was visible in the pass that
\* returned it; a strategy whose first candidate is not visible yields
\* nothing in that pass; and a strategy whose lookup raises an error is the
\* only one skipped: the pass still returns the candidate of the first
\* strategy that raises none and has a visible candidate.
C38_ReturnedWasVisible ==
  fe.passes = 1 =>
    /\ fe.ret # 0 => fe.ret \in DOMAIN fe.sels /\ WasVisible(fe.ret)
    /\ \A k \in DOMAIN fe.sels : ~WasVisible(k) => fe.ret # k
    /\ \A k \in DOMAIN fe.sels :
         ( /\ Sound(k) /\ WasVisible(k)
           /\ \A j \in 1..(k - 1) : ~Sound(j) \/ ~WasVisible(j) )
         => fe.ret = k /\ fe.pc = "returned"

\* the first strategy raised an error, its page element was visible, and the
\* pass returned the visible candidate of the second one
C38_Witness ==
  /\ fe.pc = "returned" /\ fe.passes = 1
  /\ Len(fe.sels) = 2
  /\ ~Sound(1) /\ fe.passDom[1] = "visible"
  /\ fe.ret = 2 /\ WasVisible(2)

(***************************************************************************)
(* The orchestrator: stop, termination, letter case, failed reports and    *)
(* the lifecycle events (specification Spec).                              *)
(***************************************************************************)
\* the step issues a register-agent or a get-task request
IssuesPollRequest ==
  \E p \in TickIds :
    \/ log'[p].regReqs # log[p].regReqs
    \/ log'[p].getTaskReqs # log[p].getTaskReqs

\* C33: once STOP_AGENT has been handled, no get-task and no register-agent
\* request is issued until the next START_AGENT, wherever the running ticks
\* were when the stop arrived.
C33_NoRequestAfterStop ==
  [][ stopDone => ~IssuesPollRequest ]_vars

\* EXECUTE_TASK was delivered to the tab of the task and a listener of the
\* content script took it: handleTask ran, or runs, for the task
ReachedDispatcher(p) ==
  /\ log[p].reply # "missing"
  /\ disp[p] # "none"

\* C35: every task that validateTask accepts and that is sent to the tab of
\* its platform is taken by the listener of that platform's content script
\* and handled by handleTask, whatever the letter case of task.platform.
C35_AnyCaseReachesDispatcher ==
  \A p \in TickIds :
    (Validated(p) /\ log[p].sent = 1 /\ log[p].reply # "thrown")
      => ReachedDispatcher(p)

\* the same, for the tasks whose platform is written in lower case
C35_LowerCaseReachesDispatcher ==
  \A p \in TickIds :
    ( /\ Validated(p) /\ log[p].sent = 1 /\ log[p].reply # "thrown"
      /\ procs[p].task.platform.v = toLowerCase(procs[p].task.platform.v) )
      => ReachedDispatcher(p)

\* the report requests of all tasks that the server acknowledged, by status
RECURSIVE AckedUpTo(_, _)
AckedUpTo(status, n) ==
  IF n = 0 THEN 0
  ELSE AckedUpTo(status, n - 1)
       + (IF status = "completed" THEN log[n].ackedCompleted ELSE log[n].ackedFailed)
Acked(status) == AckedUpTo(status, MaxHandlers)

\* the local counters count acknowledged outcomes only
CountedWithinAcked ==
  /\ store.stats.tasksCompleted <= Acked("completed")
  /\ store.stats.tasksFailed <= Acked("failed")

\* the step ends the reportTaskStatus of p in its catch: apiCall threw for
\* the missing API key, or the request failed
ReportFails(p) ==
  /\ \/ procs[p].pc = "rp_api" /\ store.apiKey = ""
     \/ procs[p].pc = "rp_fetch"
  /\ procs'[p].pc \notin {"rp_api", "rp_send", "rp_fetch", "rp_set_read"}

\* reportTaskStatus returns to where it was called from
ReturnsToCaller(p) ==
  procs'[p].pc = (IF p = MsgProc THEN "idle" ELSE procs[p].ret)

\* C36: when the report-task-status request fails (network error, non-OK
\* response or missing API key), reportTaskStatus returns to its caller
\* without raising and leaves the persisted record, stats and lastTask
\* included, as it was; the local counters never exceed the number of
\* outcomes the server acknowledged.
C36_FailedReportLeavesStats ==
  [][ /\ \A p \in ProcIds :
           ReportFails(p) => ReturnsToCaller(p) /\ store' = store
      /\ CountedWithinAcked' ]_vars

\* a tick ended after the report of its task failed: nothing was counted
C36_Witness ==
  \E p \in TickIds :
    /\ HasTask(p) /\ Finished(p) /\ procs[p].pc = "done"
    /\ Len(log[p].reports) = 1 /\ log[p].reports[1].sent
    /\ log[p].reports[1].status = "failed"
    /\ log[p].acks = 0 /\ log[p].counted = 0
    /\ store.stats = DEFAULT_STATE.stats /\ store.lastTask = NoTask

\* a step of the handler of the lifecycle event
LifecycleStep(kind) ==
  procs[MsgProc].kind = kind /\ procs'[MsgProc] # procs[MsgProc]
\* the step with which the handler of the event ends
LifecycleEnds(kind) ==
  procs[MsgProc].kind = kind /\ procs'[MsgProc].kind = "none"

\* onStartup leaves the record as it is and ends with the alarm armed exactly
\* when running is true; the write of onInstalled makes the record the
\* defaults
RestartKeepsInstallResets ==
  /\ LifecycleStep("onStartup") => store' = store
  /\ LifecycleEnds("onStartup") => (alarm' <=> store'.isRunning)
  /\ ResetStep => store' = DEFAULT_STATE

\* the step lowers tasksCompleted or tasksFailed
LowersCounters ==
  \/ store'.stats.tasksCompleted < store.stats.tasksCompleted
  \/ store'.stats.tasksFailed < store.stats.tasksFailed

\* C37: onStartup leaves the persisted record unchanged and arms the poll
\* alarm exactly when running is true; onInstalled makes the whole record
\* equal to the defaults, and that write is the only step that lowers the
\* counters.
C37_SurvivesRestart ==
  [][ /\ RestartKeepsInstallResets
      /\ LowersCounters => ResetStep ]_vars

\* what holds of the two handlers: onStartup leaves the record unchanged and
\* ends with the alarm armed when running is true, and the write of
\* onInstalled makes the record the defaults
C37_LifecycleHandlers ==
  [][ /\ LifecycleStep("onStartup") => store' = store
      /\ LifecycleEnds("onStartup") /\ store'.isRunning => alarm'
      /\ ResetStep => store' = DEFAULT_STATE ]_vars

(***************************************************************************)
(* Termination of a tick.  The first firing of the alarm runs alone, with  *)
(* no message arriving.  Every await of the tick that the browser or the   *)
(* server answers is answered in the end: storage and tab calls, a fetch   *)
(* (response or network error), sendMessage (a reply, or a rejection when  *)
(* the page of the content script goes away).  The 'complete' update of a  *)
(* new tab is not owed to the listener: the tab may be closed or stay      *)
(* loading, and an update that came before addListener is not repeated.    *)
(***************************************************************************)
\* the steps of tick p that are taken once they are possible
TickRuns(p) ==
  \/ AlarmFire(p) \/ TickRead(p)
  \/ FetchRead(p) \/ RegRead(p) \/ RegApi(p) \/ RegSend(p) \/ RegResponse(p)
  \/ RegSetRead(p) \/ RegSetWrite(p) \/ FetchRead2(p)
  \/ GetTaskApi(p) \/ GetTaskSend(p) \/ GetTaskResponse(p)
  \/ LastPollRead(p) \/ LastPollWrite(p)
  \/ FetchErrRead(p) \/ FetchErrSetRead(p) \/ FetchErrSetWrite(p)
  \/ Validate(p) \/ TabsQuery(p) \/ TabUpdate(p) \/ TabCreate(p)
  \/ SendExecute(p) \/ DispatcherReply(p) \/ Notify(p)
  \/ ReportRead(p) \/ ReportApi(p) \/ ReportSend(p) \/ ReportResponse(p)
  \/ ReportSetRead(p) \/ ReportSetWrite(p)

NextTick == TickRuns(1) \/ TabLoaded(1)

SpecTick == Init /\ [][NextTick]_vars /\ WF_vars(TickRuns(1))

\* the same, on the assumption that every new tab reports 'complete' to the
\* listener
SpecTickLoads == SpecTick /\ WF_vars(TabLoaded(1))

\* a report-task-status request was made for the task of tick p
ReportRequested(p) ==
  \E i \in 1..Len(log[p].reports) : log[p].reports[i].sent

\* C34: every tick terminates: the alarm handler returns, and a task that
\* passed validation gets a report-task-status request, also when the
\* 'complete' load event of a newly created tab does not reach the listener
\* and when the page of the dispatcher is destroyed before it replies.
C34_EveryTickTerminates ==
  \A p \in TickIds :
    /\ IsTick(p) ~> Finished(p)
    /\ Validated(p) ~> ReportRequested(p)

\* the same property, stated for the ticks whose new tab reports 'complete'
\* (specification SpecTickLoads)
C34_TerminatesWhenLoaded ==
  \A p \in TickIds :
    /\ IsTick(p) ~> Finished(p)
    /\ Validated(p) ~> ReportRequested(p)

====
